---- MODULE Spec2Model ----
(***************************************************************************)
(* Model of the membership core of swimmers: the NodeState order           *)
(* (src/src/node.rs), the NodeSet merge and its semi-random traversal      *)
(* (src/src/node_set.rs), the PingStore probe state machine                *)
(* (src/src/ping.rs), the Awareness counter (src/src/awareness.rs) and the *)
(* suspicion table (src/src/suspicions.rs).                                *)
(***************************************************************************)
EXTENDS Integers, Naturals, Sequences, FiniteSets, TLC

VARIABLES
    ox, oy, oz, ores,                 \* inputs and results of NodeState::cmp
    map, nsLast,                      \* NodeSet.map and the last NodeSet call
    sequence, pings, current,         \* PingStore fields
    panicked,                         \* an assert! of PingStore has failed
    ret,                              \* the last PingStore call and its result
    hist,                             \* per sequence: the calls made on it
    issued,                           \* the sequence numbers handed out, in order
    stack, iter,                      \* NodeSet.stack and the live Iter, if any
    trav,                             \* the last traversal call and what it yielded
    awareness, awLast, awRun,         \* Awareness, its last call, the run of equal calls
    suspicions, susLast, susSeen,     \* Suspecions.suspicions, the last call, the
                                      \* suspectors named since an entry was (re)set
    nodeState, mutLast,               \* a NodeState and the last mutation called on it
    refuted,                          \* addresses whose record is as reincarnate left it
    tcLast,                           \* the last TimeoutCalculator::timeout call
    now,                              \* Instant::now()
    timers,                           \* every Timer made so far, dropped ones included
    tasks,                            \* every task spawned for a Timer
    chan,                             \* the mpsc channel the tasks send into
    rst,                              \* the Timer::reset call under way, if any
    ptAwareness,                      \* PingTimers.awareness
    interval,                         \* the AwarenessInterval and its tasks
    twoSets                           \* two NodeSets and the updates sent to both

vars == <<ox, oy, oz, ores, map, nsLast, sequence, pings, current,
          panicked, ret, hist, issued, stack, iter, trav,
          awareness, awLast, awRun, suspicions, susLast, susSeen,
          nodeState, mutLast, refuted, tcLast,
          now, timers, tasks, chan, rst, ptAwareness, interval, twoSets>>

ordVars == <<ox, oy, oz, ores>>
nsVars == <<map, nsLast>>
pingVars == <<sequence, pings, current, panicked, ret, hist, issued>>
itVars == <<stack, iter, trav>>
awVars == <<awareness, awLast, awRun>>
susVars == <<suspicions, susLast, susSeen>>
mutVars == <<nodeState, mutLast, refuted>>
tmVars == <<now, timers, tasks, chan, rst, ptAwareness>>
schedVars == <<tcLast, tmVars, interval, twoSets>>
coreVars == <<ordVars, nsVars, pingVars, itVars, awVars, susVars>>

----------------------------------------------------------------------------
(* Bounds *)

MaxInc == 2                   \* incarnations compared by cmp
MaxNodeInc == 1               \* incarnations merged into the NodeSet
NumAddrs == 2                 \* socket addresses
MaxSeq == 3                   \* sequence numbers handed out by a PingStore
MaxAwareness == 9             \* largest max an Awareness is built with
MaxRun == 10                  \* longest run of equal Awareness calls followed
MaxSusInc == 1                \* incarnations a node is suspected at
MaxU64 == 5                   \* incarnations of the states that are mutated
MaxK == 3                     \* largest k of a TimeoutCalculator
MaxC == 6                     \* largest suspector count passed to timeout
MaxTime == 3                  \* the clock stops here
MaxTasks == 3                 \* tasks spawned in a run
MaxUpdates == 3               \* updates sent to the two NodeSets

Incs == 0..MaxInc
NodeIncs == 0..MaxNodeInc
Addrs == 1..NumAddrs
Metas == {"None"}             \* Option<Box<[u8]>>
Seqs == 0..MaxSeq             \* MaxSeq itself is never handed out
SusIncs == 0..MaxSusInc
Delays == 0..(MaxTime - 1)    \* the Durations a Timer is given

----------------------------------------------------------------------------
(* NodeState, src/src/node.rs *)

Alive(i) == [tag |-> "Alive", inc |-> i]
Suspect(i) == [tag |-> "Suspect", inc |-> i]
Dead(i) == [tag |-> "Dead", inc |-> i]
Left == [tag |-> "Left", inc |-> 0]

NodeStates(I) == {Alive(i) : i \in I} \cup {Suspect(i) : i \in I}
                 \cup {Dead(i) : i \in I} \cup {Left}

NodeState == NodeStates(Incs)

\* cmp with the arm (Suspect(i), Alive(j)) guarded by i > j instead of i >= j
cmp_SuspectAliveStrict(x, y) ==
    IF x = y THEN "Equal"
    ELSE IF x.tag = "Alive" /\ y.tag = "Alive" /\ x.inc > y.inc THEN "Greater"
    ELSE IF x.tag = "Alive" /\ y.tag = "Suspect" /\ x.inc > y.inc THEN "Greater"
    ELSE IF x.tag = "Alive" /\ y.tag = "Dead" /\ x.inc > y.inc THEN "Greater"
    ELSE IF x.tag = "Suspect" /\ y.tag = "Alive" /\ x.inc > y.inc THEN "Greater"
    ELSE IF x.tag = "Suspect" /\ y.tag = "Suspect" /\ x.inc > y.inc THEN "Greater"
    ELSE IF x.tag = "Suspect" /\ y.tag = "Dead" /\ x.inc > y.inc THEN "Greater"
    ELSE IF x.tag = "Dead" /\ y.tag = "Alive" /\ x.inc >= y.inc THEN "Greater"
    ELSE IF x.tag = "Dead" /\ y.tag = "Suspect" /\ x.inc >= y.inc THEN "Greater"
    ELSE IF x.tag = "Dead" /\ y.tag = "Dead" /\ x.inc > y.inc THEN "Greater"
    ELSE IF x.tag = "Left" THEN "Greater"
    ELSE "Less"

\* cmp with the arm (Left, _) missing
cmp_NoLeftArm(x, y) ==
    IF x = y THEN "Equal"
    ELSE IF x.tag = "Alive" /\ y.tag = "Alive" /\ x.inc > y.inc THEN "Greater"
    ELSE IF x.tag = "Alive" /\ y.tag = "Suspect" /\ x.inc > y.inc THEN "Greater"
    ELSE IF x.tag = "Alive" /\ y.tag = "Dead" /\ x.inc > y.inc THEN "Greater"
    ELSE IF x.tag = "Suspect" /\ y.tag = "Alive" /\ x.inc >= y.inc THEN "Greater"
    ELSE IF x.tag = "Suspect" /\ y.tag = "Suspect" /\ x.inc > y.inc THEN "Greater"
    ELSE IF x.tag = "Suspect" /\ y.tag = "Dead" /\ x.inc > y.inc THEN "Greater"
    ELSE IF x.tag = "Dead" /\ y.tag = "Alive" /\ x.inc >= y.inc THEN "Greater"
    ELSE IF x.tag = "Dead" /\ y.tag = "Suspect" /\ x.inc >= y.inc THEN "Greater"
    ELSE IF x.tag = "Dead" /\ y.tag = "Dead" /\ x.inc > y.inc THEN "Greater"
    ELSE "Less"

\* impl Ord for NodeState: the match arms in source order
cmp(x, y) ==
    IF x = y THEN "Equal"
    ELSE IF x.tag = "Alive" /\ y.tag = "Alive" /\ x.inc > y.inc THEN "Greater"
    ELSE IF x.tag = "Alive" /\ y.tag = "Suspect" /\ x.inc > y.inc THEN "Greater"
    ELSE IF x.tag = "Alive" /\ y.tag = "Dead" /\ x.inc > y.inc THEN "Greater"
    ELSE IF x.tag = "Suspect" /\ y.tag = "Alive" /\ x.inc >= y.inc THEN "Greater"
    ELSE IF x.tag = "Suspect" /\ y.tag = "Suspect" /\ x.inc > y.inc THEN "Greater"
    ELSE IF x.tag = "Suspect" /\ y.tag = "Dead" /\ x.inc > y.inc THEN "Greater"
    ELSE IF x.tag = "Dead" /\ y.tag = "Alive" /\ x.inc >= y.inc THEN "Greater"
    ELSE IF x.tag = "Dead" /\ y.tag = "Suspect" /\ x.inc >= y.inc THEN "Greater"
    ELSE IF x.tag = "Dead" /\ y.tag = "Dead" /\ x.inc > y.inc THEN "Greater"
    ELSE IF x.tag = "Left" THEN "Greater"
    ELSE "Less"

----------------------------------------------------------------------------
(* The order as the documentation of NodeState states it *)

TagRank(t) == CASE t = "Alive" -> 0 [] t = "Suspect" -> 1 [] t = "Dead" -> 2

RefGreater(x, y) ==
    IF x.tag = "Left" THEN y.tag # "Left"
    ELSE IF y.tag = "Left" THEN FALSE
    ELSE IF x.inc # y.inc THEN x.inc > y.inc
    ELSE TagRank(x.tag) > TagRank(y.tag)

RefCmp(x, y) ==
    IF RefGreater(x, y) THEN "Greater"
    ELSE IF RefGreater(y, x) THEN "Less"
    ELSE "Equal"

RefMax(x, y) == IF RefGreater(y, x) THEN y ELSE x

Reverse(o) == CASE o = "Less" -> "Greater" [] o = "Greater" -> "Less" [] o = "Equal" -> "Equal"

----------------------------------------------------------------------------
(* Comparing states: the inputs are drawn in Init, Compare applies cmp *)

NoRes == [xy |-> "none", yx |-> "none", yz |-> "none", xz |-> "none"]

Compare ==
    /\ ores = NoRes
    /\ ores' = [xy |-> cmp(ox, oy), yx |-> cmp(oy, ox),
                yz |-> cmp(oy, oz), xz |-> cmp(ox, oz)]
    /\ UNCHANGED <<ox, oy, oz>>

----------------------------------------------------------------------------
(* NodeSet, src/src/node_set.rs *)

Node == [addr : Addrs, state : NodeStates(NodeIncs), metadata : Metas]

NoNode == [addr |-> 0, state |-> Left, metadata |-> "None"]

\* insert that keeps the record an address has whatever the comparison says
insert_KeepsFirst(m, node) ==
    IF node.addr \notin DOMAIN m
    THEN [map |-> [a \in DOMAIN m \cup {node.addr} |->
                      IF a = node.addr THEN node ELSE m[a]],
          res |-> "Inserted"]
    ELSE [map |-> m, res |-> "Unchanged"]

\* insert that stores the new record also when the states compare equal
insert_EqualReplaces(m, node) ==
    IF node.addr \notin DOMAIN m
    THEN [map |-> [a \in DOMAIN m \cup {node.addr} |->
                      IF a = node.addr THEN node ELSE m[a]],
          res |-> "Inserted"]
    ELSE LET c == cmp(node.state, m[node.addr].state) IN
         IF c = "Less" THEN [map |-> m, res |-> "Unchanged"]
         ELSE IF c = "Equal" THEN [map |-> [m EXCEPT ![node.addr] = node], res |-> "Equal"]
         ELSE [map |-> [m EXCEPT ![node.addr] = node], res |-> "Updated"]

\* insert that replaces the record whenever the state kind is not lower
insert_KindFirst(m, node) ==
    IF node.addr \notin DOMAIN m
    THEN [map |-> [a \in DOMAIN m \cup {node.addr} |->
                      IF a = node.addr THEN node ELSE m[a]],
          res |-> "Inserted"]
    ELSE LET c == cmp(node.state, m[node.addr].state) IN
         IF c = "Greater" \/ (c = "Less" /\ node.state.tag = "Dead")
         THEN [map |-> [m EXCEPT ![node.addr] = node], res |-> "Updated"]
         ELSE IF c = "Equal" THEN [map |-> m, res |-> "Equal"]
         ELSE [map |-> m, res |-> "Unchanged"]

\* insert that overwrites the entry whatever the comparison says
insert_AlwaysReplace(m, node) ==
    IF node.addr \notin DOMAIN m
    THEN [map |-> [a \in DOMAIN m \cup {node.addr} |->
                      IF a = node.addr THEN node ELSE m[a]],
          res |-> "Inserted"]
    ELSE [map |-> [m EXCEPT ![node.addr] = node], res |-> "Updated"]

\* NodeSet::insert: the new map and the InsertionResult variant
insert(m, node) ==
    IF node.addr \notin DOMAIN m
    THEN [map |-> [a \in DOMAIN m \cup {node.addr} |->
                      IF a = node.addr THEN node ELSE m[a]],
          res |-> "Inserted"]
    ELSE LET c == cmp(node.state, m[node.addr].state) IN
         IF c = "Less" THEN [map |-> m, res |-> "Unchanged"]
         ELSE IF c = "Equal" THEN [map |-> m, res |-> "Equal"]
         ELSE [map |-> [m EXCEPT ![node.addr] = node], res |-> "Updated"]

\* NodeSet::remove: the new map and the removed node, if any
remove(m, addr) ==
    IF addr \in DOMAIN m
    THEN [map |-> [a \in DOMAIN m \ {addr} |-> m[a]], res |-> m[addr]]
    ELSE [map |-> m, res |-> NoNode]

Get(m, addr) == IF addr \in DOMAIN m THEN m[addr] ELSE NoNode

EmptyMap == [a \in {} |-> NoNode]

Insert(node) ==
    LET r == insert(map, node) IN
    /\ map' = r.map
    /\ nsLast' = [op |-> "insert", node |-> node,
                  prev |-> Get(map, node.addr), res |-> r.res]

Remove(addr) ==
    LET r == remove(map, addr) IN
    /\ map' = r.map
    /\ nsLast' = [op |-> "remove", node |-> [NoNode EXCEPT !.addr = addr],
                  prev |-> r.res, res |-> "none"]

----------------------------------------------------------------------------
(* PingStore, src/src/ping.rs *)

Direct(addr) == [kind |-> "Direct", addr |-> addr]
Indirect(addr, nacks) == [kind |-> "Indirect", addr |-> addr, nacks |-> nacks]
Request(source, nacked) == [kind |-> "Request", source |-> source, nacked |-> nacked]

PingTarget(s, addr) == [sequence |-> s, addr |-> addr]
PingRequestTarget(s, addr) == [sequence |-> s, addr |-> addr]
RequestSource == [sequence : {7}, addr : Addrs]

None == [kind |-> "None"]
Some(v) == [kind |-> "Some", val |-> v]
Ok(v) == [kind |-> "Ok", val |-> v]
NodeAlreadyPingedError(addr) == [kind |-> "Err", addr |-> addr]

DoIndirect(target) == [kind |-> "DoIndirect", target |-> target]
SendNack(source) == [kind |-> "SendNack", source |-> source]
RequestFailed(source) == [kind |-> "RequestFailed", source |-> source]
NodeFailed(addr, nacks) == [kind |-> "NodeFailed", addr |-> addr, nacks |-> nacks]

\* HashMap::insert and HashMap::remove
Put(m, k, v) == [x \in DOMAIN m \cup {k} |-> IF x = k THEN v ELSE m[x]]
Del(m, k) == [x \in DOMAIN m \ {k} |-> m[x]]

NoPings == [s \in {} |-> None]

\* PingStore::new
NewStore == [sequence |-> 0, pings |-> NoPings, current |-> {}]

Store == [sequence |-> sequence, pings |-> pings, current |-> current]

\* next_sequence that forgets to increment the counter
next_sequence_NoIncrement(st) == [st |-> st, res |-> st.sequence]

\* PingStore::next_sequence
next_sequence(st) ==
    [st |-> [st EXCEPT !.sequence = st.sequence + 1], res |-> st.sequence]

\* ping that draws the sequence number before it looks at the in-flight set
ping_SequenceFirst(st, addr) ==
    LET n == next_sequence(st) IN
    IF addr \in st.current
    THEN [st |-> n.st, res |-> NodeAlreadyPingedError(addr), panic |-> FALSE]
    ELSE [st |-> [n.st EXCEPT !.current = @ \cup {addr},
                              !.pings = Put(@, n.res, Direct(addr))],
          res |-> Ok(PingTarget(n.res, addr)), panic |-> FALSE]

\* PingStore::ping
ping(st, addr) ==
    IF addr \in st.current
    THEN [st |-> st, res |-> NodeAlreadyPingedError(addr), panic |-> FALSE]
    ELSE LET n == next_sequence([st EXCEPT !.current = @ \cup {addr}]) IN
         [st |-> [n.st EXCEPT !.pings = Put(@, n.res, Direct(addr))],
          res |-> Ok(PingTarget(n.res, addr)), panic |-> FALSE]

\* ping_request that also marks the target as in flight
ping_request_MarksTarget(st, source, target) ==
    LET n == next_sequence(st) IN
    [st |-> [n.st EXCEPT !.pings = Put(@, n.res, Request(source, FALSE)),
                         !.current = @ \cup {target}],
     res |-> PingRequestTarget(n.res, target), panic |-> FALSE]

\* PingStore::ping_request
ping_request(st, source, target) ==
    LET n == next_sequence(st) IN
    [st |-> [n.st EXCEPT !.pings = Put(@, n.res, Request(source, FALSE))],
     res |-> PingRequestTarget(n.res, target), panic |-> FALSE]

\* ack that forgets to take the address out of the in-flight set
ack_KeepCurrent(st, s) ==
    IF s \notin DOMAIN st.pings
    THEN [st |-> st, res |-> None, panic |-> FALSE]
    ELSE [st |-> [st EXCEPT !.pings = Del(@, s)],
          res |-> Some(st.pings[s]), panic |-> FALSE]

\* ack that looks the entry up without removing it
ack_PeekOnly(st, s) ==
    IF s \notin DOMAIN st.pings
    THEN [st |-> st, res |-> None, panic |-> FALSE]
    ELSE [st |-> st, res |-> Some(st.pings[s]), panic |-> FALSE]

\* PingStore::ack
ack(st, s) ==
    IF s \notin DOMAIN st.pings
    THEN [st |-> st, res |-> None, panic |-> FALSE]
    ELSE LET p == st.pings[s]
             st1 == [st EXCEPT !.pings = Del(@, s)]
         IN IF p.kind \in {"Direct", "Indirect"}
            THEN [st |-> [st1 EXCEPT !.current = @ \ {p.addr}],
                  res |-> Some(p), panic |-> p.addr \notin st1.current]
            ELSE [st |-> st1, res |-> Some(p), panic |-> FALSE]

\* NonZeroUsize::new
NonZeroUsize(n) == IF n = 0 THEN None ELSE Some(n)

\* nack that reports the count also when the address had nacked before
nack_CountRepeats(st, s, from) ==
    IF s \in DOMAIN st.pings /\ st.pings[s].kind = "Indirect"
    THEN LET nacks == st.pings[s].nacks \cup {from} IN
         [st |-> [st EXCEPT !.pings[s].nacks = nacks],
          res |-> NonZeroUsize(Cardinality(nacks)), panic |-> FALSE]
    ELSE [st |-> st, res |-> None, panic |-> FALSE]

\* PingStore::nack
nack(st, s, from) ==
    IF /\ s \in DOMAIN st.pings
       /\ st.pings[s].kind = "Indirect"
       /\ from \notin st.pings[s].nacks
    THEN LET nacks == st.pings[s].nacks \cup {from} IN
         [st |-> [st EXCEPT !.pings[s].nacks = nacks],
          res |-> NonZeroUsize(Cardinality(nacks)), panic |-> FALSE]
    ELSE [st |-> st, res |-> None, panic |-> FALSE]

\* PingStore::nack_count
nack_count(st, s) ==
    IF s \in DOMAIN st.pings /\ st.pings[s].kind = "Indirect"
    THEN Some(Cardinality(st.pings[s].nacks))
    ELSE None

\* fail whose NodeFailed forgets the collected nacks
fail_DropNacks(st, s) ==
    IF s \notin DOMAIN st.pings
    THEN [st |-> st, res |-> None, panic |-> FALSE]
    ELSE LET p == st.pings[s]
             st1 == [st EXCEPT !.pings = Del(@, s)]
         IN IF p.kind = "Request" /\ p.nacked
            THEN [st |-> st1, res |-> Some(RequestFailed(p.source)), panic |-> FALSE]
            ELSE IF p.kind = "Request"
            THEN [st |-> [st1 EXCEPT !.pings = Put(@, s, Request(p.source, TRUE))],
                  res |-> Some(SendNack(p.source)), panic |-> FALSE]
            ELSE IF p.kind = "Direct"
            THEN LET n == next_sequence(st1) IN
                 [st |-> [n.st EXCEPT !.pings = Put(@, n.res, Indirect(p.addr, {}))],
                  res |-> Some(DoIndirect(PingTarget(n.res, p.addr))),
                  panic |-> FALSE]
            ELSE [st |-> [st1 EXCEPT !.current = @ \ {p.addr}],
                  res |-> Some(NodeFailed(p.addr, {})),
                  panic |-> p.addr \notin st1.current]

\* fail that does not put the nacked Request back
fail_DropRequest(st, s) ==
    IF s \notin DOMAIN st.pings
    THEN [st |-> st, res |-> None, panic |-> FALSE]
    ELSE LET p == st.pings[s]
             st1 == [st EXCEPT !.pings = Del(@, s)]
         IN IF p.kind = "Request" /\ p.nacked
            THEN [st |-> st1, res |-> Some(RequestFailed(p.source)), panic |-> FALSE]
            ELSE IF p.kind = "Request"
            THEN [st |-> st1, res |-> Some(SendNack(p.source)), panic |-> FALSE]
            ELSE IF p.kind = "Direct"
            THEN LET n == next_sequence(st1) IN
                 [st |-> [n.st EXCEPT !.pings = Put(@, n.res, Indirect(p.addr, {}))],
                  res |-> Some(DoIndirect(PingTarget(n.res, p.addr))),
                  panic |-> FALSE]
            ELSE [st |-> [st1 EXCEPT !.current = @ \ {p.addr}],
                  res |-> Some(NodeFailed(p.addr, p.nacks)),
                  panic |-> p.addr \notin st1.current]

\* fail that puts the Request back without marking it nacked
fail_PutsBackUnmarked(st, s) ==
    IF s \notin DOMAIN st.pings
    THEN [st |-> st, res |-> None, panic |-> FALSE]
    ELSE LET p == st.pings[s]
             st1 == [st EXCEPT !.pings = Del(@, s)]
         IN IF p.kind = "Request" /\ p.nacked
            THEN [st |-> st1, res |-> Some(RequestFailed(p.source)), panic |-> FALSE]
            ELSE IF p.kind = "Request"
            THEN [st |-> [st1 EXCEPT !.pings = Put(@, s, Request(p.source, FALSE))],
                  res |-> Some(SendNack(p.source)), panic |-> FALSE]
            ELSE IF p.kind = "Direct"
            THEN LET n == next_sequence(st1) IN
                 [st |-> [n.st EXCEPT !.pings = Put(@, n.res, Indirect(p.addr, {}))],
                  res |-> Some(DoIndirect(PingTarget(n.res, p.addr))),
                  panic |-> FALSE]
            ELSE [st |-> [st1 EXCEPT !.current = @ \ {p.addr}],
                  res |-> Some(NodeFailed(p.addr, p.nacks)),
                  panic |-> p.addr \notin st1.current]

\* PingStore::fail
fail(st, s) ==
    IF s \notin DOMAIN st.pings
    THEN [st |-> st, res |-> None, panic |-> FALSE]
    ELSE LET p == st.pings[s]
             st1 == [st EXCEPT !.pings = Del(@, s)]
         IN IF p.kind = "Request" /\ p.nacked
            THEN [st |-> st1, res |-> Some(RequestFailed(p.source)), panic |-> FALSE]
            ELSE IF p.kind = "Request"
            THEN [st |-> [st1 EXCEPT !.pings = Put(@, s, Request(p.source, TRUE))],
                  res |-> Some(SendNack(p.source)), panic |-> FALSE]
            ELSE IF p.kind = "Direct"
            THEN LET n == next_sequence(st1) IN
                 [st |-> [n.st EXCEPT !.pings = Put(@, n.res, Indirect(p.addr, {}))],
                  res |-> Some(DoIndirect(PingTarget(n.res, p.addr))),
                  panic |-> FALSE]
            ELSE [st |-> [st1 EXCEPT !.current = @ \ {p.addr}],
                  res |-> Some(NodeFailed(p.addr, p.nacks)),
                  panic |-> p.addr \notin st1.current]

\* PingStore::clear
clear(st) == [st EXCEPT !.pings = NoPings, !.current = {}]

KeysOfKind(st, k) == {s \in DOMAIN st.pings : st.pings[s].kind = k}

\* PingStore::pingcounts
pingcounts(st) ==
    <<Cardinality(KeysOfKind(st, "Direct")),
      Cardinality(KeysOfKind(st, "Indirect")),
      Cardinality(KeysOfKind(st, "Request"))>>

----------------------------------------------------------------------------
(* The calls made on a PingStore.  ret is the last call, the sequence it   *)
(* was given (-1 if none) and its result.                                  *)
(* hist[s] follows the calls made on sequence s: "none" until s is handed  *)
(* out; then the kind of probe, whom it concerns, the Direct sequence it   *)
(* continues, the number of fail(s) calls and the addresses passed to      *)
(* nack(s, .); "closed" once s has been acked, cleared, or failed through  *)
(* its last timeout (one for Direct and Indirect, two for Request), with   *)
(* the kind it was and whether it failed or was ended by ack or clear.     *)
(* issued lists the sequence numbers in the order they were handed out.    *)

NoHist == [kind |-> "none", who |-> 0, parent |-> -1, fails |-> 0, nacks |-> {},
           was |-> "none", why |-> "none"]
Closed(h, why) == [NoHist EXCEPT !.kind = "closed", !.was = h.kind, !.why = why]
NewHist(kind, who, parent) == [NoHist EXCEPT !.kind = kind, !.who = who, !.parent = parent]

Open(h) == h.kind \in {"direct", "indirect", "request"}

NsLast0 == [op |-> "new", node |-> NoNode, prev |-> NoNode, res |-> "none"]
Ret0 == [op |-> "new", s |-> -1, res |-> None]
Hist0 == [s \in Seqs |-> NoHist]

SetStore(r) ==
    /\ sequence' = r.st.sequence
    /\ pings' = r.st.pings
    /\ current' = r.st.current
    /\ panicked' = r.panic

Ping(addr) ==
    LET r == ping(Store, addr) IN
    /\ ~panicked
    /\ addr \notin current => sequence < MaxSeq
    /\ SetStore(r)
    /\ ret' = [op |-> "ping", s |-> -1, res |-> r.res]
    /\ IF r.res.kind = "Ok"
       THEN /\ hist' = [hist EXCEPT ![r.res.val.sequence] = NewHist("direct", addr, -1)]
            /\ issued' = Append(issued, r.res.val.sequence)
       ELSE UNCHANGED <<hist, issued>>

PingReq(source, target) ==
    LET r == ping_request(Store, source, target) IN
    /\ ~panicked
    /\ sequence < MaxSeq
    /\ SetStore(r)
    /\ ret' = [op |-> "ping_request", s |-> -1, res |-> r.res]
    /\ hist' = [hist EXCEPT ![r.res.sequence] = NewHist("request", source, -1)]
    /\ issued' = Append(issued, r.res.sequence)

Ack(s) ==
    LET r == ack(Store, s) IN
    /\ ~panicked
    /\ SetStore(r)
    /\ ret' = [op |-> "ack", s |-> s, res |-> r.res]
    /\ hist' = IF Open(hist[s]) THEN [hist EXCEPT ![s] = Closed(@, "ended")] ELSE hist
    /\ UNCHANGED issued

Nack(s, from) ==
    LET r == nack(Store, s, from) IN
    /\ ~panicked
    /\ SetStore(r)
    /\ ret' = [op |-> "nack", s |-> s, res |-> r.res]
    /\ hist' = IF hist[s].kind = "indirect"
               THEN [hist EXCEPT ![s].nacks = @ \cup {from}]
               ELSE hist
    /\ UNCHANGED issued

Fail(s) ==
    LET r == fail(Store, s)
        h1 == IF hist[s].kind = "request" /\ hist[s].fails = 0
              THEN [hist EXCEPT ![s].fails = 1]
              ELSE IF Open(hist[s]) THEN [hist EXCEPT ![s] = Closed(@, "failed")]
              ELSE hist
    IN
    /\ ~panicked
    /\ (s \in DOMAIN pings /\ pings[s].kind = "Direct") => sequence < MaxSeq
    /\ SetStore(r)
    /\ ret' = [op |-> "fail", s |-> s, res |-> r.res]
    /\ IF r.res.kind = "Some" /\ r.res.val.kind = "DoIndirect"
       THEN /\ hist' = [h1 EXCEPT ![r.res.val.target.sequence] =
                            NewHist("indirect", r.res.val.target.addr, s)]
            /\ issued' = Append(issued, r.res.val.target.sequence)
       ELSE /\ hist' = h1
            /\ UNCHANGED issued

Clear ==
    LET st == clear(Store) IN
    /\ ~panicked
    /\ SetStore([st |-> st, panic |-> FALSE])
    /\ ret' = [op |-> "clear", s |-> -1, res |-> None]
    /\ hist' = [s \in Seqs |-> IF Open(hist[s]) THEN Closed(hist[s], "ended") ELSE hist[s]]
    /\ UNCHANGED issued

----------------------------------------------------------------------------
(* NodeState mutations reached through NodeSet::get_mut, src/src/node.rs *)

\* the largest incarnation of a mutated state: stands for u64::MAX
U64Max == MaxU64

MutStates == NodeStates(0..U64Max)

\* NodeState::suspect_if_dead: the new state and the bool returned
suspect_if_dead(s) ==
    IF s.tag = "Dead"
    THEN [state |-> Suspect(s.inc), res |-> "true"]
    ELSE [state |-> s, res |-> "false"]

suspect_FromSuspect(s) ==
    IF s.tag \in {"Alive", "Suspect"}
    THEN [state |-> Suspect(s.inc), res |-> "Ok"]
    ELSE [state |-> s, res |-> "SuspectError"]

\* NodeState::suspect: the new state and the Result returned
suspect(s) ==
    IF s.tag = "Alive"
    THEN [state |-> Suspect(s.inc), res |-> "Ok"]
    ELSE [state |-> s, res |-> "SuspectError"]

\* NodeState::kill
kill(s) ==
    IF s.tag \in {"Dead", "Left"}
    THEN [state |-> s, res |-> "KillError"]
    ELSE [state |-> Dead(s.inc), res |-> "Ok"]

\* NodeState::leave
leave(s) ==
    IF s = Left
    THEN [state |-> s, res |-> "LeaveError"]
    ELSE [state |-> Left, res |-> "Ok"]

\* NodeState::reincarnate: i + 1 on a u64.  At the largest incarnation the
\* addition overflows: it panics where overflow checks are compiled in and
\* wraps to 0 where they are not.
reincarnate(s) ==
    IF s = Left THEN {[state |-> s, panic |-> FALSE]}
    ELSE IF s.inc < U64Max THEN {[state |-> Alive(s.inc + 1), panic |-> FALSE]}
    ELSE {[state |-> s, panic |-> TRUE], [state |-> Alive(0), panic |-> FALSE]}

Mutations == {"suspect", "kill", "leave"}
Guarded == Mutations \cup {"suspect_if_dead"}

Called(f, s) ==
    CASE f = "suspect" -> suspect(s)
      [] f = "kill" -> kill(s)
      [] f = "leave" -> leave(s)
      [] f = "suspect_if_dead" -> suspect_if_dead(s)

Mutated(f, s) == Called(f, s).state

MutLast0 == [op |-> "new", before |-> Left, res |-> "Ok", panic |-> FALSE]

\* one of the guarded mutations called on the state
Mutate(f) ==
    /\ ~mutLast.panic
    /\ nodeState' = Called(f, nodeState).state
    /\ mutLast' = [op |-> f, before |-> nodeState, res |-> Called(f, nodeState).res, panic |-> FALSE]
    /\ UNCHANGED refuted

\* reincarnate called on the state
Reincarnate ==
    /\ ~mutLast.panic
    /\ \E r \in reincarnate(nodeState) :
          /\ nodeState' = r.state
          /\ mutLast' = [op |-> "reincarnate", before |-> nodeState, res |-> "Ok",
                        panic |-> r.panic]
    /\ UNCHANGED refuted

\* the program has stopped in a panic of reincarnate
Crashed == nsLast.res = "panic"

\* NodeSet::insert where refutations are followed: a record that is
\* inserted or replaced is no longer as reincarnate left it
MergeInsert(node) ==
    /\ ~Crashed
    /\ Insert(node)
    /\ refuted' = IF insert(map, node).res \in {"Inserted", "Updated"}
                  THEN refuted \ {node.addr}
                  ELSE refuted

\* NodeSet::get_mut(addr) followed by reincarnate: the node refutes what
\* is said about it
GetMutReincarnate(addr) ==
    /\ ~Crashed
    /\ addr \in DOMAIN map
    /\ \E r \in reincarnate(map[addr].state) :
          /\ map' = [map EXCEPT ![addr].state = r.state]
          /\ nsLast' = [op |-> "get_mut", node |-> map'[addr], prev |-> map[addr],
                        res |-> IF r.panic THEN "panic" ELSE "reincarnate"]
          /\ refuted' = IF /\ ~r.panic
                           /\ map[addr].state # Left
                           /\ r.state = Alive(map[addr].state.inc + 1)
                        THEN refuted \cup {addr}
                        ELSE refuted \ {addr}

\* NodeSet::get_mut(addr) followed by a mutation of the node's state
GetMut(addr, f) ==
    /\ addr \in DOMAIN map
    /\ map' = [map EXCEPT ![addr].state = Mutated(f, @)]
    /\ nsLast' = [op |-> "get_mut", node |-> map'[addr], prev |-> map[addr], res |-> f]

----------------------------------------------------------------------------
(* Two NodeSets that merge the same updates, src/src/node_set.rs *)

\* the updates sent: records of two addresses over two incarnations
UpdateNodes == [addr : {1, 2}, state : NodeStates({0, 1}), metadata : Metas]

\* two new NodeSets, a and b, and no update sent; gotA and gotB are the
\* updates each has been given at least once
NoUpdates == [updates |-> {}, a |-> EmptyMap, b |-> EmptyMap, gotA |-> {}, gotB |-> {}]

\* a peer sends one more update, to both NodeSets
SendUpdate(node) ==
    /\ node \notin twoSets.updates
    /\ Cardinality(twoSets.updates) < MaxUpdates
    /\ twoSets' = [twoSets EXCEPT !.updates = @ \cup {node}]

\* NodeSet::insert of an update into a, for the first time or again
InsertA(node) ==
    /\ node \in twoSets.updates
    /\ twoSets' = [twoSets EXCEPT !.a = insert(@, node).map, !.gotA = @ \cup {node}]

\* NodeSet::insert of an update into b, for the first time or again
InsertB(node) ==
    /\ node \in twoSets.updates
    /\ twoSets' = [twoSets EXCEPT !.b = insert(@, node).map, !.gotB = @ \cup {node}]

----------------------------------------------------------------------------
(* The semi-random traversal of a NodeSet, src/src/node_set.rs *)

NoIter == [live |-> FALSE, visited |-> {}, next_item |-> None, active_nodes |-> 0]

Trav0 == [op |-> "new", yielded |-> <<>>, res |-> None, status |-> "ok"]

\* NodeSet::contains
contains(m, addr) == addr \in DOMAIN m

\* NodeSet::counts
counts(m) ==
    <<Cardinality({a \in DOMAIN m : m[a].state.tag = "Alive"}),
      Cardinality({a \in DOMAIN m : m[a].state.tag = "Suspect"}),
      Cardinality({a \in DOMAIN m : m[a].state.tag = "Dead"}),
      Cardinality({a \in DOMAIN m : m[a].state.tag = "Left"})>>

\* stack.shuffle(rng): every order of the addresses may come out
Shuffles(S) ==
    {q \in [1..Cardinality(S) -> S] : \A i, j \in 1..Cardinality(S) : q[i] = q[j] => i = j}

\* refill_stack that takes every known address, in the map or not
refill_stack_AllAddrs(m) == Shuffles(Addrs)

\* NodeSet::refill_stack: the stacks it may build
refill_stack(m) == Shuffles({m[a].addr : a \in {b \in DOMAIN m : m[b].state # Left}})

\* NodeSet::pop: the address popped, if any, and the stack left behind
pop(st, m) ==
    IF st # <<>>
    THEN {[res |-> Some(st[Len(st)]), stack |-> SubSeq(st, 1, Len(st) - 1)]}
    ELSE {IF q = <<>>
          THEN [res |-> None, stack |-> q]
          ELSE [res |-> Some(q[Len(q)]), stack |-> SubSeq(q, 1, Len(q) - 1)]
          : q \in refill_stack(m)}

RECURSIVE iter_unique_random_addrs(_, _)
\* NodeSet::iter_unique_random_addrs: the iterators it may return
iter_unique_random_addrs(st, m) ==
    UNION {IF p.res = None
           THEN {[it |-> NoIter, stack |-> p.stack]}
           ELSE IF contains(m, p.res.val)
           THEN LET c == counts(m) IN
                {[it |-> [live |-> TRUE, visited |-> {p.res.val},
                          next_item |-> Some(p.res.val),
                          active_nodes |-> c[1] + c[2] + c[3]],
                  stack |-> p.stack]}
           ELSE iter_unique_random_addrs(p.stack, m)
           : p \in pop(st, m)}

RECURSIVE next(_, _, _, _)
\* Iter::next: what a call may return. refilled says that this call has
\* already popped a whole refill without returning: every address of a
\* refill is then visited and the count test fails, so the loop never ends.
next(it, st, m, refilled) ==
    IF st = <<>> /\ refilled
    THEN {[res |-> None, it |-> it, stack |-> st, status |-> "hang"]}
    ELSE UNION {
        IF p.res = None
        THEN {[res |-> None, it |-> it, stack |-> p.stack, status |-> "panic"]}
        ELSE IF ~contains(m, p.res.val)
        THEN next(it, p.stack, m, refilled \/ st = <<>>)
        ELSE IF p.res.val \notin it.visited
        THEN {[res |-> it.next_item,
               it |-> [it EXCEPT !.visited = @ \cup {p.res.val},
                                 !.next_item = Some(p.res.val)],
               stack |-> p.stack, status |-> "ok"]}
        ELSE IF Cardinality(it.visited) = it.active_nodes
        THEN {[res |-> it.next_item, it |-> [it EXCEPT !.next_item = None],
               stack |-> p.stack, status |-> "ok"]}
        ELSE next(it, p.stack, m, refilled \/ st = <<>>)
        : p \in pop(st, m)}

\* the map is borrowed by a live Iter; a panicked or looping call ends the run
Idle == ~iter.live /\ trav.status = "ok"

Drained == trav.op = "next" /\ trav.res = None

IterUniqueRandomAddrs ==
    /\ Idle
    /\ \E o \in iter_unique_random_addrs(stack, map) :
          /\ stack' = o.stack
          /\ iter' = o.it
          /\ trav' = [op |-> "iter", yielded |-> <<>>,
                      res |-> IF o.it.live THEN Some(0) ELSE None, status |-> "ok"]

IterNext ==
    /\ iter.live
    /\ trav.status = "ok"
    /\ ~Drained
    /\ \E o \in next(iter, stack, map, FALSE) :
          /\ stack' = o.stack
          /\ iter' = o.it
          /\ trav' = [op |-> "next",
                      yielded |-> IF o.res = None THEN trav.yielded
                                  ELSE Append(trav.yielded, o.res.val),
                      res |-> o.res, status |-> o.status]

IterDrop ==
    /\ iter.live
    /\ trav.status = "ok"
    /\ iter' = NoIter
    /\ trav' = [Trav0 EXCEPT !.op = "drop"]
    /\ UNCHANGED stack

----------------------------------------------------------------------------
(* Awareness, src/src/awareness.rs *)

DefaultMax == 9

\* Awareness::new
NewAwareness(max) == [max |-> max, score |-> 1]

\* Awareness::score: the conversion to NonZeroU32 is unwrapped
score(a) == [val |-> a.score, panic |-> a.score = 0]

\* increment without the test against max
increment_NoCap(a) ==
    LET b == [a EXCEPT !.score = @ + 1] IN [aw |-> b, res |-> score(b)]

\* Awareness::increment
increment(a) ==
    LET b == IF a.score < a.max THEN [a EXCEPT !.score = @ + 1] ELSE a IN
    [aw |-> b, res |-> score(b)]

\* decrement that stops at 0 instead of 1
decrement_FloorZero(a) ==
    LET b == IF a.score > 0 THEN [a EXCEPT !.score = @ - 1] ELSE a IN
    [aw |-> b, res |-> score(b)]

\* Awareness::decrement
decrement(a) ==
    LET b == IF a.score > 1 THEN [a EXCEPT !.score = @ - 1] ELSE a IN
    [aw |-> b, res |-> score(b)]

AwLast0 == [op |-> "new", before |-> 1, res |-> score(NewAwareness(1))]

AwRun0 == [op |-> "new", start |-> 1, n |-> 0]

\* the run of equal calls after one more call of op
Run(op) ==
    IF awRun.op = op THEN [awRun EXCEPT !.n = @ + 1]
    ELSE [op |-> op, start |-> awareness.score, n |-> 1]

AwCall(op, r) ==
    /\ ~awLast.res.panic
    /\ awRun.op = op => awRun.n < MaxRun
    /\ awareness' = r.aw
    /\ awLast' = [op |-> op, before |-> awareness.score, res |-> r.res]
    /\ awRun' = Run(op)

Increment == AwCall("increment", increment(awareness))

Decrement == AwCall("decrement", decrement(awareness))

----------------------------------------------------------------------------
(* Suspecions, src/src/suspicions.rs *)

Suspicion(incarnation, suspectors) ==
    [incarnation |-> incarnation, suspectors |-> suspectors]

New == [kind |-> "New"]
Reset == [kind |-> "Reset"]
Update(n) == [kind |-> "Update", count |-> n]

\* SuspicionResult::suspicions
SuspicionCount(res) == IF res.kind = "Update" THEN res.count ELSE 1

\* Suspecions::new
NoSuspicions == [a \in {} |-> Suspicion(0, {})]

\* suspect whose Reset arm keeps the suspectors of the lower incarnation
Suspecions_suspect_ResetKeeps(m, addr, incarnation, suspector) ==
    IF addr \notin DOMAIN m
    THEN [map |-> Put(m, addr, Suspicion(incarnation, {suspector})),
          res |-> Some(New), panic |-> FALSE]
    ELSE IF incarnation < m[addr].incarnation
    THEN [map |-> m, res |-> None, panic |-> FALSE]
    ELSE IF incarnation > m[addr].incarnation
    THEN [map |-> [m EXCEPT ![addr] =
                      Suspicion(incarnation, @.suspectors \cup {suspector})],
          res |-> Some(Reset), panic |-> FALSE]
    ELSE LET s == m[addr].suspectors \cup {suspector} IN
         [map |-> [m EXCEPT ![addr].suspectors = s],
          res |-> Some(Update(Cardinality(s))), panic |-> FALSE]

\* suspect that records the suspector of a stale call
Suspecions_suspect_StaleRecords(m, addr, incarnation, suspector) ==
    IF addr \notin DOMAIN m
    THEN [map |-> Put(m, addr, Suspicion(incarnation, {suspector})),
          res |-> Some(New), panic |-> FALSE]
    ELSE IF incarnation < m[addr].incarnation
    THEN [map |-> [m EXCEPT ![addr].suspectors = @ \cup {suspector}],
          res |-> None, panic |-> FALSE]
    ELSE IF incarnation > m[addr].incarnation
    THEN [map |-> [m EXCEPT ![addr] = Suspicion(incarnation, {suspector})],
          res |-> Some(Reset), panic |-> FALSE]
    ELSE LET s == m[addr].suspectors \cup {suspector} IN
         [map |-> [m EXCEPT ![addr].suspectors = s],
          res |-> Some(Update(Cardinality(s))), panic |-> FALSE]

\* suspect that counts calls instead of distinct suspectors
Suspecions_suspect_CountsCalls(m, addr, incarnation, suspector) ==
    IF addr \notin DOMAIN m
    THEN [map |-> Put(m, addr, Suspicion(incarnation, {suspector})),
          res |-> Some(New), panic |-> FALSE]
    ELSE IF incarnation < m[addr].incarnation
    THEN [map |-> m, res |-> None, panic |-> FALSE]
    ELSE IF incarnation > m[addr].incarnation
    THEN [map |-> [m EXCEPT ![addr] = Suspicion(incarnation, {suspector})],
          res |-> Some(Reset), panic |-> FALSE]
    ELSE LET s == m[addr].suspectors \cup {suspector} IN
         [map |-> [m EXCEPT ![addr].suspectors = s],
          res |-> Some(Update(Cardinality(m[addr].suspectors) + 1)),
          panic |-> FALSE]

\* Suspecions::suspect: the new map, the result, and whether the unwrap of
\* NonZeroUsize::new(count) panics
Suspecions_suspect(m, addr, incarnation, suspector) ==
    IF addr \notin DOMAIN m
    THEN [map |-> Put(m, addr, Suspicion(incarnation, {suspector})),
          res |-> Some(New), panic |-> FALSE]
    ELSE IF incarnation < m[addr].incarnation
    THEN [map |-> m, res |-> None, panic |-> FALSE]
    ELSE IF incarnation > m[addr].incarnation
    THEN [map |-> [m EXCEPT ![addr] = Suspicion(incarnation, {suspector})],
          res |-> Some(Reset), panic |-> FALSE]
    ELSE LET s == m[addr].suspectors \cup {suspector}
             count == NonZeroUsize(Cardinality(s)) IN
         [map |-> [m EXCEPT ![addr].suspectors = s],
          res |-> IF count = None THEN None ELSE Some(Update(count.val)),
          panic |-> count = None]

\* Suspecions::get
Suspecions_get(m, addr) == IF addr \in DOMAIN m THEN Some(m[addr]) ELSE None

\* remove that hands the entry out and keeps it
Suspecions_remove_KeepsEntry(m, addr) ==
    [map |-> m, res |-> Suspecions_get(m, addr)]

\* Suspecions::remove
Suspecions_remove(m, addr) ==
    IF addr \in DOMAIN m
    THEN [map |-> Del(m, addr), res |-> Some(m[addr])]
    ELSE [map |-> m, res |-> None]

\* known: the suspector was already in the entry's set when the call came
SusLast0 == [op |-> "new", addr |-> 0, incarnation |-> 0, suspector |-> 0,
             known |-> FALSE, res |-> None, panic |-> FALSE]

SusSeen0 == [a \in Addrs |-> {}]

SusSuspect(addr, incarnation, suspector) ==
    LET r == Suspecions_suspect(suspicions, addr, incarnation, suspector) IN
    /\ ~susLast.panic
    /\ suspicions' = r.map
    /\ susLast' = [op |-> "suspect", addr |-> addr, incarnation |-> incarnation,
                   suspector |-> suspector,
                   known |-> /\ addr \in DOMAIN suspicions
                             /\ suspector \in suspicions[addr].suspectors,
                   res |-> r.res, panic |-> r.panic]
    /\ susSeen' = [susSeen EXCEPT ![addr] =
                      IF r.res = None THEN @
                      ELSE IF r.res.val.kind = "Update" THEN @ \cup {suspector}
                      ELSE {suspector}]

SusRemove(addr) ==
    LET r == Suspecions_remove(suspicions, addr) IN
    /\ ~susLast.panic
    /\ suspicions' = r.map
    /\ susLast' = [op |-> "remove", addr |-> addr, incarnation |-> 0,
                   suspector |-> 0, known |-> FALSE,
                   res |-> r.res, panic |-> FALSE]
    /\ susSeen' = [susSeen EXCEPT ![addr] = {}]

----------------------------------------------------------------------------
(* The suspicion timeout, src/src/scheduler/suspicion.rs.  A Duration is a *)
(* whole number of time units, MsUnit of them to the millisecond.          *)

MsUnit == 10

\* f64::log10 of 1..10, in millionths
Log10 == <<0, 301030, 477121, 602060, 698970, 778151, 845098, 903090, 954243, 1000000>>

\* timeout without the lower limit f64::max(min, f)
TimeoutCalculator_timeout_NoFloor(k, min, max, c) ==
    LET Lc == Log10[c]
        Lk == Log10[k + 1]
        fhi == (Lc * 1000) \div Lk
        flo == (((Lc * 1000) % Lk) * 1000) \div Lk
        sub == (max - min) * fhi + ((max - min) * flo) \div 1000
        f == max * 1000 - sub
    IN f \div (1000 * MsUnit)

\* TimeoutCalculator::timeout for self.k = k: the whole milliseconds of
\* max(min, max - (max - min) * log10(c) / log10(k + 1)).  frac is kept to
\* six decimals (fhi thousandths and flo millionths), f in thousandths of
\* a time unit.
TimeoutCalculator_timeout(k, min, max, c) ==
    LET Lc == Log10[c]
        Lk == Log10[k + 1]
        fhi == (Lc * 1000) \div Lk
        flo == (((Lc * 1000) % Lk) * 1000) \div Lk
        sub == (max - min) * fhi + ((max - min) * flo) \div 1000
        f == max * 1000 - sub
        duration == IF min * 1000 > f THEN min * 1000 ELSE f
    IN duration \div (1000 * MsUnit)

\* the Durations passed as min and max: 1001 ms, 2 s, 2000.5 ms, 30 s
Durations == {10010, 20000, 20005, 300000}

TcLast0 == [min |-> 0, max |-> 0, c |-> 0, k |-> 0, timeout |-> 0]

\* timeout(min, max, c) of the calculator the call record was started for
Timeout(c) ==
    tcLast' = [tcLast EXCEPT !.c = c,
                 !.timeout = TimeoutCalculator_timeout(tcLast.k, tcLast.min, tcLast.max, c)]

----------------------------------------------------------------------------
(* Timer, src/src/scheduler/timer.rs, and Handle, src/src/handle.rs.       *)
(* timers[t] is the t-th Timer made: the key its Output carries, started,  *)
(* the task its handle points to, the shared done flag, alive until the    *)
(* Timer is dropped, and the kind and the Duration it was last programmed  *)
(* with.  tasks[g] is the g-th task spawned: its Timer, its deadline and   *)
(* its position:                                                           *)
(*   "sleep"      in sleep(d).await                                        *)
(*   "run"        polled after the sleep, before done.swap                 *)
(*   "send"       done.swap returned false, before tx.send                 *)
(*   "parked"     in tx.send(..).await, the channel being full             *)
(*   "sent", "end", "cancelled"   finished                                 *)
(* aborted: JoinHandle::abort found the task being polled; it is then      *)
(* cancelled when it next has to wait.  chan holds the tasks whose value   *)
(* is in the channel.                                                      *)

\* channel(1) in PingTimers::new and SuspicionTimers::new
ChannelCap == 1

NoReset == [pc |-> "idle", timer |-> 0, d |-> 0]

NewTask(t, wake) ==
    [timer |-> t, pc |-> "sleep", wake |-> wake, aborted |-> FALSE]

\* a task that has ended: its deadline is of no use any more
Finished(task, pc) == [task EXCEPT !.pc = pc, !.wake = 0, !.aborted = FALSE]

\* JoinHandle::abort: a task that is waiting is cancelled at once, a task
\* that is being polled when it next waits
abort(ts, g) ==
    IF ts[g].pc \in {"sleep", "parked"} THEN [ts EXCEPT ![g] = Finished(@, "cancelled")]
    ELSE IF ts[g].pc \in {"run", "send"} THEN [ts EXCEPT ![g].aborted = TRUE]
    ELSE ts

\* a Handle that is dropped without aborting its task
Handle_drop_NoAbort(ts, g) == ts

\* impl Drop for Handle
Handle_drop(ts, g) == abort(ts, g)

\* checked_sub, or zero
SaturatingSub(a, b) == IF a >= b THEN a - b ELSE 0

\* Timer::new(d, out): the timers and the tasks after it
Timer_new(key, kind, d) ==
    [timers |-> Append(timers,
                   [key |-> key, kind |-> kind, started |-> now,
                    handle |-> Len(tasks) + 1, done |-> FALSE, alive |-> TRUE,
                    d |-> d]),
     tasks |-> Append(tasks, NewTask(Len(timers) + 1, now + d))]

\* Timer::reset from abort() on that sleeps for d whatever time has passed
Timer_reset_rest_FromNow(tm, ts, t, d) ==
    LET ts1 == abort(ts, tm[t].handle)
    IN [timers |-> [tm EXCEPT ![t].done = FALSE, ![t].handle = Len(ts) + 1, ![t].d = d],
        tasks |-> Append(ts1, NewTask(t, now + d))]

\* Timer::reset from abort() on, timer.rs 56-71: done.swap has returned
\* false
Timer_reset_rest(tm, ts, t, d) ==
    LET ts1 == abort(ts, tm[t].handle)
        rem == SaturatingSub(d, now - tm[t].started)
    IN [timers |-> [tm EXCEPT ![t].done = FALSE, ![t].handle = Len(ts) + 1, ![t].d = d],
        tasks |-> Append(ts1, NewTask(t, now + rem))]

\* Timer::reset(d, out) in one piece, as a caller sees it
Timer_reset(tm, ts, t, d) ==
    IF tm[t].done THEN [timers |-> tm, tasks |-> ts]
    ELSE Timer_reset_rest(tm, ts, t, d)

AliveTimers == {t \in 1..Len(timers) : timers[t].alive}

\* the alive Timer stored under a key, 0 if there is none
TimerOf(tm, seq) ==
    IF \E t \in 1..Len(tm) : tm[t].alive /\ tm[t].key = seq
    THEN CHOOSE t \in 1..Len(tm) : tm[t].alive /\ tm[t].key = seq
    ELSE 0

\* a Timer goes out of the map and is dropped: its Handle aborts the task.
\* Of a dropped Timer only the done flag, which its tasks share, is left.
DropTimer(tt, t) ==
    IF t = 0 THEN tt
    ELSE [timers |-> [tt.timers EXCEPT ![t].alive = FALSE, ![t].kind = "Dropped",
                                       ![t].started = 0, ![t].d = 0],
          tasks |-> Handle_drop(tt.tasks, tt.timers[t].handle)]

\* the key of the one Timer that is followed on its own
TimerKeys == {1}

\* Instant::now() moves on
Tick ==
    /\ now < MaxTime
    /\ now' = now + 1
    /\ UNCHANGED <<timers, tasks, chan, rst, ptAwareness>>

\* Timer::new
TimerNew(key, d) ==
    /\ rst.pc = "idle"
    /\ Len(tasks) < MaxTasks
    /\ timers' = Timer_new(key, "Timer", d).timers
    /\ tasks' = Timer_new(key, "Timer", d).tasks
    /\ UNCHANGED <<now, chan, rst, ptAwareness>>

\* HashMap::insert of a new Timer over the one stored under the key, as in
\* PingTimers::start_* and SuspicionTimers::start: the old Timer is dropped
TimerReplace(key, d) ==
    LET tt == DropTimer(Timer_new(key, "Timer", d), TimerOf(timers, key))
    IN /\ rst.pc = "idle"
       /\ TimerOf(timers, key) # 0
       /\ Len(tasks) < MaxTasks
       /\ timers' = tt.timers
       /\ tasks' = tt.tasks
       /\ UNCHANGED <<now, chan, rst, ptAwareness>>

\* HashMap::remove of the Timer stored under the key, as in
\* PingTimers::remove and SuspicionTimers::remove: the Timer is dropped
TimerDrop(key) ==
    LET tt == DropTimer([timers |-> timers, tasks |-> tasks], TimerOf(timers, key))
    IN /\ rst.pc = "idle"
       /\ TimerOf(timers, key) # 0
       /\ timers' = tt.timers
       /\ tasks' = tt.tasks
       /\ UNCHANGED <<now, chan, rst, ptAwareness>>

\* Timer::reset that goes on whatever done.swap returned
ResetSwap_NoCheck(t, d) ==
    /\ rst.pc = "idle"
    /\ t \in AliveTimers
    /\ Len(tasks) < MaxTasks
    /\ timers' = [timers EXCEPT ![t].done = TRUE]
    /\ rst' = [pc |-> "abort", timer |-> t, d |-> d]
    /\ UNCHANGED <<now, tasks, chan, ptAwareness>>

\* Timer::reset, timer.rs 51-54: done.swap(true), return if it was set
ResetSwap(t, d) ==
    /\ rst.pc = "idle"
    /\ t \in AliveTimers
    /\ Len(tasks) < MaxTasks
    /\ timers' = [timers EXCEPT ![t].done = TRUE]
    /\ rst' = IF timers[t].done THEN NoReset ELSE [pc |-> "abort", timer |-> t, d |-> d]
    /\ UNCHANGED <<now, tasks, chan, ptAwareness>>

\* Timer::reset, timer.rs 56: handle.inner.abort()
ResetAbort ==
    /\ rst.pc = "abort"
    /\ tasks' = abort(tasks, timers[rst.timer].handle)
    /\ rst' = [rst EXCEPT !.pc = "store"]
    /\ UNCHANGED <<now, timers, chan, ptAwareness>>

\* Timer::reset, timer.rs 58-71: done.store(false), spawn the new task
ResetStore ==
    /\ rst.pc = "store"
    /\ timers' = Timer_reset_rest(timers, tasks, rst.timer, rst.d).timers
    /\ tasks' = Timer_reset_rest(timers, tasks, rst.timer, rst.d).tasks
    /\ rst' = NoReset
    /\ UNCHANGED <<now, chan, ptAwareness>>

\* task, timer.rs 79: the sleep is over and the task is polled
TaskWake(g) ==
    /\ tasks[g].pc = "sleep"
    /\ now >= tasks[g].wake
    /\ tasks' = [tasks EXCEPT ![g].pc = "run"]
    /\ UNCHANGED <<now, timers, chan, rst, ptAwareness>>

\* task, timer.rs 81-83: done.swap(true)
TaskSwap(g) ==
    /\ tasks[g].pc = "run"
    /\ timers' = [timers EXCEPT ![tasks[g].timer].done = TRUE]
    /\ tasks' = [tasks EXCEPT ![g] = IF timers[tasks[g].timer].done
                                     THEN Finished(@, "end")
                                     ELSE [@ EXCEPT !.pc = "send"]]
    /\ UNCHANGED <<now, chan, rst, ptAwareness>>

\* task, timer.rs 79-83, where nothing runs between the end of the sleep
\* and done.swap
TaskFire(g) ==
    /\ tasks[g].pc = "sleep"
    /\ now >= tasks[g].wake
    /\ timers' = [timers EXCEPT ![tasks[g].timer].done = TRUE]
    /\ tasks' = [tasks EXCEPT ![g] = IF timers[tasks[g].timer].done
                                     THEN Finished(@, "end")
                                     ELSE [@ EXCEPT !.pc = "send"]]
    /\ UNCHANGED <<now, chan, rst, ptAwareness>>

\* task, timer.rs 84: out.send().await
TaskSend(g) ==
    /\ tasks[g].pc \in {"send", "parked"}
    /\ IF Len(chan) < ChannelCap
       THEN /\ chan' = Append(chan, g)
            /\ tasks' = [tasks EXCEPT ![g] = Finished(@, "sent")]
       ELSE /\ tasks[g].pc = "send"
            /\ tasks' = [tasks EXCEPT ![g] = IF tasks[g].aborted
                                             THEN Finished(@, "cancelled")
                                             ELSE [@ EXCEPT !.pc = "parked"]]
            /\ UNCHANGED chan
    /\ UNCHANGED <<now, timers, rst, ptAwareness>>

\* Receiver::recv by the consumer of the events
Recv ==
    /\ chan # <<>>
    /\ chan' = Tail(chan)
    /\ UNCHANGED <<now, timers, tasks, rst, ptAwareness>>

----------------------------------------------------------------------------
(* PingTimers, src/src/scheduler/ping.rs *)

\* PingTimer::NORMAL_MUL, NACK_MUL and GRACE_MUL, in hundredths
NORMAL_MUL == 100
NACK_MUL == 80
GRACE_MUL == 20

Mul(kind) ==
    CASE kind = "Normal" -> NORMAL_MUL [] kind = "Nack" -> NACK_MUL [] kind = "Grace" -> GRACE_MUL

PingTimerKinds == {"Normal", "Nack", "Grace"}

\* PingTimers.base_timeout, in time units
BaseTimeout == 5

\* the sequences timers are started for and the awareness values passed in
PtSeqs == {1, 2}
PtAwareness == {1, 2}

\* Duration::mul_f64: the product goes through f64 seconds back to a
\* Duration, rounded to the nearest time unit
mul_f64(d, mul) == (d * mul + 50) \div 100

\* PingTimers::calc_normal_timeout
calc_normal_timeout(a) == a * BaseTimeout

\* PingTimers::start_normal, start_nack, start_grace: make_timer, then
\* map.insert, which drops the Timer the seq had
Start(kind, seq) ==
    LET d == mul_f64(calc_normal_timeout(ptAwareness), Mul(kind))
        made == Timer_new(seq, kind, d)
        tt == DropTimer(made, TimerOf(timers, seq))
    IN /\ Len(tasks) < MaxTasks
       /\ timers' = tt.timers
       /\ tasks' = tt.tasks
       /\ UNCHANGED <<now, chan, rst, ptAwareness>>

\* PingTimer::update on the timers t..Len(tt.timers) that are in the map
RECURSIVE UpdateFrom(_, _, _)
UpdateFrom(tt, t, normal_timeout) ==
    IF t > Len(tt.timers) THEN tt
    ELSE IF ~tt.timers[t].alive THEN UpdateFrom(tt, t + 1, normal_timeout)
    ELSE UpdateFrom(Timer_reset(tt.timers, tt.tasks, t,
                                mul_f64(normal_timeout, Mul(tt.timers[t].kind))),
                    t + 1, normal_timeout)

Pending == {t \in AliveTimers : ~timers[t].done}

\* PingTimers::update_awareness
UpdateAwareness(a) ==
    LET tt == UpdateFrom([timers |-> timers, tasks |-> tasks], 1, calc_normal_timeout(a))
    IN /\ Len(tasks) + Cardinality(Pending) <= MaxTasks
       /\ ptAwareness' = a
       /\ timers' = tt.timers
       /\ tasks' = tt.tasks
       /\ UNCHANGED <<now, chan, rst>>

----------------------------------------------------------------------------
(* Interval and AwarenessInterval, src/src/scheduler/interval.rs *)

\* AwarenessInterval.base_interval, in time units
BaseInterval == 1

\* the awareness values passed to AwarenessInterval::update
IvAwareness == {1, 2}

\* before AwarenessInterval::new. d is the period last passed to a task.
NoInterval == [made |-> FALSE, last_started |-> 0, handle |-> 0, d |-> 0, tasks |-> <<>>]

\* a task as tokio::spawn leaves it: not yet polled
SpawnedTask(d) == [pc |-> "start", d |-> d, wake |-> 0, aborted |-> FALSE]

\* a task that was cancelled
Cancelled == [pc |-> "cancelled", d |-> 0, wake |-> 0, aborted |-> FALSE]

\* JoinHandle::abort on task g of the interval: a task that waits is
\* cancelled at once, a task being polled goes on to its next await
Interval_abort(ts, g) ==
    IF ts[g].pc \in {"start", "sleep"} THEN [ts EXCEPT ![g] = Cancelled]
    ELSE IF ts[g].pc = "run" THEN [ts EXCEPT ![g].aborted = TRUE]
    ELSE ts

\* Interval::reset
Interval_reset(iv, d) ==
    [iv EXCEPT !.tasks = Append(Interval_abort(iv.tasks, iv.handle), SpawnedTask(d)),
               !.handle = Len(iv.tasks) + 1,
               !.d = d]

\* the instant the sleep of task's loop ends, interval.rs 59-68
SleepUntil(d, last_started) == now + SaturatingSub(d, now - last_started)

\* AwarenessInterval::new(base_interval) with Interval::new
IntervalNew ==
    /\ ~interval.made
    /\ interval' = [made |-> TRUE, last_started |-> now, handle |-> 1,
                    d |-> BaseInterval, tasks |-> <<SpawnedTask(BaseInterval)>>]
    /\ UNCHANGED <<now, timers, tasks, chan, rst, ptAwareness>>

\* AwarenessInterval::update(awareness)
AwarenessUpdate(a) ==
    /\ interval.made
    /\ Len(interval.tasks) < MaxTasks
    /\ interval' = Interval_reset(interval, a * BaseInterval)
    /\ UNCHANGED <<now, timers, tasks, chan, rst, ptAwareness>>

\* task, interval.rs 59-68 in its first poll: up to the sleep
IvStart(g) ==
    /\ interval.tasks[g].pc = "start"
    /\ interval' = [interval EXCEPT
            !.tasks[g].pc = "sleep",
            !.tasks[g].wake = SleepUntil(interval.tasks[g].d, interval.last_started)]
    /\ UNCHANGED <<now, timers, tasks, chan, rst, ptAwareness>>

\* task, interval.rs 68: the sleep is over and the task is polled
IvWake(g) ==
    /\ interval.tasks[g].pc = "sleep"
    /\ now >= interval.tasks[g].wake
    /\ interval' = [interval EXCEPT !.tasks[g].pc = "run"]
    /\ UNCHANGED <<now, timers, tasks, chan, rst, ptAwareness>>

\* task, interval.rs 69-71 and 59-68: notify_waiters, last_started.store and
\* the loop up to the next sleep, where an aborted task ends
IvTick(g) ==
    /\ interval.tasks[g].pc = "run"
    /\ interval' = [interval EXCEPT
            !.last_started = now,
            !.tasks[g] = IF interval.tasks[g].aborted THEN Cancelled
                         ELSE [pc |-> "sleep", d |-> interval.tasks[g].d,
                               wake |-> SleepUntil(interval.tasks[g].d, now),
                               aborted |-> FALSE]]
    /\ UNCHANGED <<now, timers, tasks, chan, rst, ptAwareness>>

----------------------------------------------------------------------------
(* Specifications *)

InitOrd ==
    /\ ox \in NodeState
    /\ oy \in NodeState
    /\ oz \in NodeState
    /\ ores = NoRes
    /\ map = EmptyMap
    /\ nsLast = NsLast0
    /\ sequence = NewStore.sequence
    /\ pings = NewStore.pings
    /\ current = NewStore.current
    /\ panicked = FALSE
    /\ ret = Ret0
    /\ hist = Hist0
    /\ issued = <<>>
    /\ stack = <<>>
    /\ iter = NoIter
    /\ trav = Trav0
    /\ awareness = NewAwareness(DefaultMax)
    /\ awLast = AwLast0
    /\ awRun = AwRun0
    /\ suspicions = NoSuspicions
    /\ susLast = SusLast0
    /\ susSeen = SusSeen0
    /\ nodeState = Left
    /\ mutLast = MutLast0
    /\ refuted = {}
    /\ tcLast = TcLast0
    /\ now = 0
    /\ timers = <<>>
    /\ tasks = <<>>
    /\ chan = <<>>
    /\ rst = NoReset
    /\ ptAwareness = 1
    /\ interval = NoInterval
    /\ twoSets = NoUpdates

NextOrd == Compare /\ UNCHANGED <<nsVars, pingVars, itVars, awVars, susVars, mutVars, schedVars>>

SpecOrd == InitOrd /\ [][NextOrd]_vars

\* NodeSet::new and PingStore::new
Init ==
    /\ ox = Left
    /\ oy = Left
    /\ oz = Left
    /\ ores = NoRes
    /\ map = EmptyMap
    /\ nsLast = NsLast0
    /\ sequence = NewStore.sequence
    /\ pings = NewStore.pings
    /\ current = NewStore.current
    /\ panicked = FALSE
    /\ ret = Ret0
    /\ hist = Hist0
    /\ issued = <<>>
    /\ stack = <<>>
    /\ iter = NoIter
    /\ trav = Trav0
    /\ awareness = NewAwareness(DefaultMax)
    /\ awLast = AwLast0
    /\ awRun = AwRun0
    /\ suspicions = NoSuspicions
    /\ susLast = SusLast0
    /\ susSeen = SusSeen0
    /\ nodeState = Left
    /\ mutLast = MutLast0
    /\ refuted = {}
    /\ tcLast = TcLast0
    /\ now = 0
    /\ timers = <<>>
    /\ tasks = <<>>
    /\ chan = <<>>
    /\ rst = NoReset
    /\ ptAwareness = 1
    /\ interval = NoInterval
    /\ twoSets = NoUpdates

NextNodeSet ==
    \/ \E node \in Node : Insert(node) /\ UNCHANGED <<ordVars, pingVars, itVars, awVars, susVars, mutVars, schedVars>>
    \/ \E addr \in Addrs : Remove(addr) /\ UNCHANGED <<ordVars, pingVars, itVars, awVars, susVars, mutVars, schedVars>>

SpecNodeSet == Init /\ [][NextNodeSet]_vars

\* the nodes merged in while traversals are studied
TravNodes == [addr : Addrs, state : NodeStates({0}), metadata : Metas]

NextTraversal ==
    \/ \E node \in TravNodes :
          Idle /\ Insert(node) /\ UNCHANGED <<ordVars, pingVars, itVars, awVars, susVars, mutVars, schedVars>>
    \/ \E addr \in Addrs :
          Idle /\ Remove(addr) /\ UNCHANGED <<ordVars, pingVars, itVars, awVars, susVars, mutVars, schedVars>>
    \/ \E addr \in Addrs, f \in Mutations :
          Idle /\ GetMut(addr, f) /\ UNCHANGED <<ordVars, pingVars, itVars, awVars, susVars, mutVars, schedVars>>
    \/ IterUniqueRandomAddrs /\ UNCHANGED <<ordVars, nsVars, pingVars, awVars, susVars, mutVars, schedVars>>
    \/ IterNext /\ UNCHANGED <<ordVars, nsVars, pingVars, awVars, susVars, mutVars, schedVars>>
    \/ IterDrop /\ UNCHANGED <<ordVars, nsVars, pingVars, awVars, susVars, mutVars, schedVars>>

SpecTraversal == Init /\ [][NextTraversal]_vars

\* Awareness::new(max) for every max the model builds one with
InitAwareness ==
    /\ ox = Left
    /\ oy = Left
    /\ oz = Left
    /\ ores = NoRes
    /\ map = EmptyMap
    /\ nsLast = NsLast0
    /\ sequence = NewStore.sequence
    /\ pings = NewStore.pings
    /\ current = NewStore.current
    /\ panicked = FALSE
    /\ ret = Ret0
    /\ hist = Hist0
    /\ issued = <<>>
    /\ stack = <<>>
    /\ iter = NoIter
    /\ trav = Trav0
    /\ awareness \in {NewAwareness(max) : max \in 1..MaxAwareness}
    /\ awLast = AwLast0
    /\ awRun = AwRun0
    /\ suspicions = NoSuspicions
    /\ susLast = SusLast0
    /\ susSeen = SusSeen0
    /\ nodeState = Left
    /\ mutLast = MutLast0
    /\ refuted = {}
    /\ tcLast = TcLast0
    /\ now = 0
    /\ timers = <<>>
    /\ tasks = <<>>
    /\ chan = <<>>
    /\ rst = NoReset
    /\ ptAwareness = 1
    /\ interval = NoInterval
    /\ twoSets = NoUpdates

NextAwareness ==
    \/ Increment /\ UNCHANGED <<ordVars, nsVars, pingVars, itVars, susVars, mutVars, schedVars>>
    \/ Decrement /\ UNCHANGED <<ordVars, nsVars, pingVars, itVars, susVars, mutVars, schedVars>>

SpecAwareness == InitAwareness /\ [][NextAwareness]_vars

NextSuspicions ==
    \/ \E addr \in Addrs, incarnation \in SusIncs, suspector \in Addrs :
          SusSuspect(addr, incarnation, suspector)
          /\ UNCHANGED <<ordVars, nsVars, pingVars, itVars, awVars, mutVars, schedVars>>
    \/ \E addr \in Addrs :
          SusRemove(addr) /\ UNCHANGED <<ordVars, nsVars, pingVars, itVars, awVars, mutVars, schedVars>>

SpecSuspicions == Init /\ [][NextSuspicions]_vars

NextPing ==
    \/ \E addr \in Addrs : Ping(addr) /\ UNCHANGED <<ordVars, nsVars, itVars, awVars, susVars, mutVars, schedVars>>
    \/ \E source \in RequestSource, target \in Addrs :
          PingReq(source, target) /\ UNCHANGED <<ordVars, nsVars, itVars, awVars, susVars, mutVars, schedVars>>
    \/ \E s \in Seqs : Ack(s) /\ UNCHANGED <<ordVars, nsVars, itVars, awVars, susVars, mutVars, schedVars>>
    \/ \E s \in Seqs, from \in Addrs : Nack(s, from) /\ UNCHANGED <<ordVars, nsVars, itVars, awVars, susVars, mutVars, schedVars>>
    \/ \E s \in Seqs : Fail(s) /\ UNCHANGED <<ordVars, nsVars, itVars, awVars, susVars, mutVars, schedVars>>
    \/ Clear /\ UNCHANGED <<ordVars, nsVars, itVars, awVars, susVars, mutVars, schedVars>>

SpecPing == Init /\ [][NextPing]_vars

\* every state a mutation can be called on
InitMutations ==
    /\ ox = Left
    /\ oy = Left
    /\ oz = Left
    /\ ores = NoRes
    /\ map = EmptyMap
    /\ nsLast = NsLast0
    /\ sequence = NewStore.sequence
    /\ pings = NewStore.pings
    /\ current = NewStore.current
    /\ panicked = FALSE
    /\ ret = Ret0
    /\ hist = Hist0
    /\ issued = <<>>
    /\ stack = <<>>
    /\ iter = NoIter
    /\ trav = Trav0
    /\ awareness = NewAwareness(DefaultMax)
    /\ awLast = AwLast0
    /\ awRun = AwRun0
    /\ suspicions = NoSuspicions
    /\ susLast = SusLast0
    /\ susSeen = SusSeen0
    /\ nodeState \in MutStates
    /\ mutLast = MutLast0
    /\ refuted = {}
    /\ tcLast = TcLast0
    /\ now = 0
    /\ timers = <<>>
    /\ tasks = <<>>
    /\ chan = <<>>
    /\ rst = NoReset
    /\ ptAwareness = 1
    /\ interval = NoInterval
    /\ twoSets = NoUpdates

NextMutations ==
    \/ \E f \in Guarded : Mutate(f) /\ UNCHANGED <<coreVars, schedVars>>
    \/ Reincarnate /\ UNCHANGED <<coreVars, schedVars>>

SpecMutations == InitMutations /\ [][NextMutations]_vars

\* every calculator and every pair of Durations timeout is called with
InitTimeout ==
    /\ ox = Left
    /\ oy = Left
    /\ oz = Left
    /\ ores = NoRes
    /\ map = EmptyMap
    /\ nsLast = NsLast0
    /\ sequence = NewStore.sequence
    /\ pings = NewStore.pings
    /\ current = NewStore.current
    /\ panicked = FALSE
    /\ ret = Ret0
    /\ hist = Hist0
    /\ issued = <<>>
    /\ stack = <<>>
    /\ iter = NoIter
    /\ trav = Trav0
    /\ awareness = NewAwareness(DefaultMax)
    /\ awLast = AwLast0
    /\ awRun = AwRun0
    /\ suspicions = NoSuspicions
    /\ susLast = SusLast0
    /\ susSeen = SusSeen0
    /\ nodeState = Left
    /\ mutLast = MutLast0
    /\ refuted = {}
    /\ tcLast \in [min : Durations, max : Durations, c : {0}, k : 1..MaxK, timeout : {0}]
    /\ now = 0
    /\ timers = <<>>
    /\ tasks = <<>>
    /\ chan = <<>>
    /\ rst = NoReset
    /\ ptAwareness = 1
    /\ interval = NoInterval
    /\ twoSets = NoUpdates

NextTimeout == \E c \in 1..MaxC : Timeout(c) /\ UNCHANGED <<coreVars, mutVars, tmVars, interval, twoSets>>

SpecTimeout == InitTimeout /\ [][NextTimeout]_vars

NextTimer ==
    \/ Tick /\ UNCHANGED <<coreVars, mutVars, tcLast, interval, twoSets>>
    \/ \E key \in TimerKeys, d \in Delays :
          TimerOf(timers, key) = 0 /\ TimerNew(key, d)
          /\ UNCHANGED <<coreVars, mutVars, tcLast, interval, twoSets>>
    \/ \E key \in TimerKeys, d \in Delays :
          TimerReplace(key, d) /\ UNCHANGED <<coreVars, mutVars, tcLast, interval, twoSets>>
    \/ \E key \in TimerKeys : TimerDrop(key) /\ UNCHANGED <<coreVars, mutVars, tcLast, interval, twoSets>>
    \/ \E t \in AliveTimers, d \in Delays :
          ResetSwap(t, d) /\ UNCHANGED <<coreVars, mutVars, tcLast, interval, twoSets>>
    \/ ResetAbort /\ UNCHANGED <<coreVars, mutVars, tcLast, interval, twoSets>>
    \/ ResetStore /\ UNCHANGED <<coreVars, mutVars, tcLast, interval, twoSets>>
    \/ \E g \in 1..Len(tasks) : TaskWake(g) /\ UNCHANGED <<coreVars, mutVars, tcLast, interval, twoSets>>
    \/ \E g \in 1..Len(tasks) : TaskSwap(g) /\ UNCHANGED <<coreVars, mutVars, tcLast, interval, twoSets>>
    \/ \E g \in 1..Len(tasks) : TaskSend(g) /\ UNCHANGED <<coreVars, mutVars, tcLast, interval, twoSets>>
    \/ Recv /\ UNCHANGED <<coreVars, mutVars, tcLast, interval, twoSets>>

SpecTimer == Init /\ [][NextTimer]_vars

NextPingTimers ==
    \/ Tick /\ UNCHANGED <<coreVars, mutVars, tcLast, interval, twoSets>>
    \/ \E kind \in PingTimerKinds, seq \in PtSeqs :
          Start(kind, seq) /\ UNCHANGED <<coreVars, mutVars, tcLast, interval, twoSets>>
    \/ \E a \in PtAwareness : UpdateAwareness(a) /\ UNCHANGED <<coreVars, mutVars, tcLast, interval, twoSets>>
    \/ \E g \in 1..Len(tasks) : TaskFire(g) /\ UNCHANGED <<coreVars, mutVars, tcLast, interval, twoSets>>
    \/ \E g \in 1..Len(tasks) : TaskSend(g) /\ UNCHANGED <<coreVars, mutVars, tcLast, interval, twoSets>>
    \/ Recv /\ UNCHANGED <<coreVars, mutVars, tcLast, interval, twoSets>>

SpecPingTimers == Init /\ [][NextPingTimers]_vars

NextInterval ==
    \/ Tick /\ UNCHANGED <<coreVars, mutVars, tcLast, interval, twoSets>>
    \/ IntervalNew /\ UNCHANGED <<coreVars, mutVars, tcLast, twoSets>>
    \/ \E a \in IvAwareness : AwarenessUpdate(a) /\ UNCHANGED <<coreVars, mutVars, tcLast, twoSets>>
    \/ \E g \in 1..Len(interval.tasks) : IvStart(g) /\ UNCHANGED <<coreVars, mutVars, tcLast, twoSets>>
    \/ \E g \in 1..Len(interval.tasks) : IvWake(g) /\ UNCHANGED <<coreVars, mutVars, tcLast, twoSets>>
    \/ \E g \in 1..Len(interval.tasks) : IvTick(g) /\ UNCHANGED <<coreVars, mutVars, tcLast, twoSets>>

SpecInterval == Init /\ [][NextInterval]_vars

NextTwoSets ==
    \/ \E node \in UpdateNodes : SendUpdate(node) /\ UNCHANGED <<coreVars, mutVars, tcLast, tmVars, interval>>
    \/ \E node \in UpdateNodes : InsertA(node) /\ UNCHANGED <<coreVars, mutVars, tcLast, tmVars, interval>>
    \/ \E node \in UpdateNodes : InsertB(node) /\ UNCHANGED <<coreVars, mutVars, tcLast, tmVars, interval>>

SpecTwoSets == Init /\ [][NextTwoSets]_vars

\* the addresses whose record is refuted and merged
Refuters == {1, 2}
RefuterNodes == [addr : Refuters, state : NodeStates(NodeIncs), metadata : Metas]

NextMerge ==
    \/ \E node \in RefuterNodes :
          MergeInsert(node)
          /\ UNCHANGED <<ordVars, pingVars, itVars, awVars, susVars, nodeState, mutLast, schedVars>>
    \/ \E addr \in Refuters :
          GetMutReincarnate(addr)
          /\ UNCHANGED <<ordVars, pingVars, itVars, awVars, susVars, nodeState, mutLast, schedVars>>

SpecMerge == Init /\ [][NextMerge]_vars

\* Option<Box<[u8]>>: absent, or some bytes
Metadata == {"None", "Some"}
MetaNodes == [addr : Addrs, state : NodeStates({0}), metadata : Metadata]

NextInsert ==
    \/ \E node \in MetaNodes : Insert(node) /\ UNCHANGED <<ordVars, pingVars, itVars, awVars, susVars, mutVars, schedVars>>
    \/ \E addr \in Addrs : Remove(addr) /\ UNCHANGED <<ordVars, pingVars, itVars, awVars, susVars, mutVars, schedVars>>

SpecInsert == Init /\ [][NextInsert]_vars

----------------------------------------------------------------------------
LessEq(o) == o \in {"Less", "Equal"}

(* C1: NodeState::cmp is a total order: cmp(x,y) is the reverse of         *)
(* cmp(y,x), cmp(x,y) is Equal exactly when x and y have the same tag and  *)
(* incarnation, and x <= y and y <= z imply x <= z.                        *)

CmpTotalOrder ==
    ores # NoRes =>
        /\ ores.xy = Reverse(ores.yx)
        /\ (ores.xy = "Equal") <=> (ox.tag = oy.tag /\ ox.inc = oy.inc)
        /\ (LessEq(ores.xy) /\ LessEq(ores.yz)) => LessEq(ores.xz)

CmpTotalOrderWitness ==
    /\ ox = Dead(0) /\ oy = Alive(1) /\ oz = Suspect(1)
    /\ ores = [xy |-> "Less", yx |-> "Greater", yz |-> "Less", xz |-> "Less"]

(* C2: for every pair of states cmp equals the documented order: Left is   *)
(* greater than every other state, otherwise the higher incarnation wins,  *)
(* and on equal incarnation Dead > Suspect > Alive.                        *)

CmpIsReference ==
    ores # NoRes =>
        /\ ores.xy = RefCmp(ox, oy)
        /\ ores.yx = RefCmp(oy, ox)
        /\ ores.yz = RefCmp(oy, oz)
        /\ ores.xz = RefCmp(ox, oz)

CmpIsReferenceWitness ==
    /\ ox = Left /\ oy = Dead(MaxInc) /\ oz = Suspect(MaxInc)
    /\ ores.xy = "Greater" /\ ores.yz = "Greater" /\ ores.yx = "Less"

(* C3: after insert(node) the state stored for node.addr is the maximum of *)
(* the previously stored state (if any) and node.state; the stored state   *)
(* of an address is never lowered by an insert.                            *)

InsertStoresMax ==
    nsLast.op = "insert" =>
        /\ nsLast.node.addr \in DOMAIN map
        /\ map[nsLast.node.addr].state =
              IF nsLast.prev = NoNode THEN nsLast.node.state
              ELSE RefMax(nsLast.prev.state, nsLast.node.state)
        /\ nsLast.prev # NoNode =>
              ~RefGreater(nsLast.prev.state, map[nsLast.node.addr].state)

InsertStoresMaxWitness ==
    /\ nsLast.op = "insert"
    /\ nsLast.prev # NoNode
    /\ nsLast.prev.state = Dead(1)
    /\ nsLast.node.state = Alive(1)
    /\ nsLast.res = "Unchanged"
    /\ map[nsLast.node.addr].state = Dead(1)


InPings(s) == s \in DOMAIN pings

IssuedSet == {issued[i] : i \in 1..Len(issued)}

(* C4: a probe handed out by ping(A) as s0 and still open makes fail(s0)   *)
(* return DoIndirect(target) with target.addr = A and a fresh sequence     *)
(* s1 > s0; the open Indirect probe s1 makes fail(s1) return               *)
(* NodeFailed(A, nacks) with nacks exactly the addresses passed to         *)
(* nack(s1, .) since, and afterwards the store holds neither s0 nor s1.    *)

DirectIndirectFailedChain ==
    [][ret'.op = "fail" =>
        LET s == ret'.s
            h == hist[s]
        IN
        /\ h.kind = "direct" =>
              /\ ret'.res.kind = "Some"
              /\ ret'.res.val.kind = "DoIndirect"
              /\ ret'.res.val.target.addr = h.who
              /\ ret'.res.val.target.sequence > s
              /\ ret'.res.val.target.sequence \notin IssuedSet
              /\ pings'[ret'.res.val.target.sequence] = Indirect(h.who, {})
        /\ h.kind = "indirect" =>
              /\ ret'.res = Some(NodeFailed(h.who, h.nacks))
              /\ hist[h.parent].was = "direct"
              /\ hist[h.parent].why = "failed"
              /\ s \notin DOMAIN pings'
              /\ h.parent \notin DOMAIN pings'
    ]_vars

DirectIndirectFailedChainWitness ==
    /\ ret.op = "fail"
    /\ ret.res.kind = "Some"
    /\ ret.res.val.kind = "NodeFailed"
    /\ ret.res.val.nacks = Addrs
    /\ hist[ret.s].was = "indirect"
    /\ hist[ret.s].why = "failed"
    /\ pings # NoPings

(* C5: a Request handed out by ping_request(src, T) as s and not acked or  *)
(* cleared since: the first fail(s) returns SendNack(src) and keeps the    *)
(* entry under s, the second returns RequestFailed(src) and removes it,    *)
(* and every later fail(s) returns None.                                   *)

RequestNackChain ==
    [][ret'.op = "fail" =>
        LET s == ret'.s
            h == hist[s]
        IN
        /\ (h.kind = "request" /\ h.fails = 0) =>
              /\ ret'.res = Some(SendNack(h.who))
              /\ DOMAIN pings' = DOMAIN pings
              /\ pings'[s].kind = "Request"
              /\ pings'[s].source = h.who
              /\ sequence' = sequence
        /\ (h.kind = "request" /\ h.fails = 1) =>
              /\ ret'.res = Some(RequestFailed(h.who))
              /\ DOMAIN pings' = DOMAIN pings \ {s}
        /\ (h.kind = "closed" /\ h.was = "request" /\ h.why = "failed") =>
              /\ ret'.res = None
              /\ UNCHANGED <<sequence, pings, current>>
    ]_vars

RequestNackChainWitness ==
    /\ ret.op = "fail"
    /\ ret.res = None
    /\ hist[ret.s].kind = "closed"
    /\ hist[ret.s].was = "request"
    /\ hist[ret.s].why = "failed"

InFlightKeys == {s \in DOMAIN pings : pings[s].kind \in {"Direct", "Indirect"}}

(* C6: the in-flight set is the set of addresses of the stored Direct and  *)
(* Indirect pings, no address is carried by two of them, pingcounts'       *)
(* direct + indirect is the size of the in-flight set, and no assert! of   *)
(* ack or fail has failed.                                                 *)

InFlightConsistent ==
    /\ current = {pings[s].addr : s \in InFlightKeys}
    /\ \A s, u \in InFlightKeys : pings[s].addr = pings[u].addr => s = u
    /\ pingcounts(Store)[1] + pingcounts(Store)[2] = Cardinality(current)
    /\ ~panicked

InFlightConsistentWitness ==
    /\ pingcounts(Store) = <<1, 1, 0>>
    /\ Cardinality(current) = 2
    /\ ret.op = "fail"
    /\ ret.res.kind = "Some"
    /\ ret.res.val.kind = "DoIndirect"

Outstanding(addr) ==
    \E s \in DOMAIN pings :
        pings[s].kind \in {"Direct", "Indirect"} /\ pings[s].addr = addr

OutstandingByCalls(addr) ==
    \E s \in Seqs : hist[s].kind \in {"direct", "indirect"} /\ hist[s].who = addr

(* C7: ping(addr) returns the AlreadyPinged error exactly when addr has an *)
(* outstanding Direct or Indirect ping (handed out by ping(addr) and       *)
(* neither acked nor failed to NodeFailed since); on the error no sequence *)
(* number is consumed and the store is unchanged.                          *)

PingRefusesInFlight ==
    [][ret'.op = "ping" => \A addr \in Addrs : Ping(addr) =>
        /\ (ret'.res.kind = "Err") <=> Outstanding(addr)
        /\ (ret'.res.kind = "Err") <=> OutstandingByCalls(addr)
        /\ ret'.res.kind = "Err" =>
              /\ ret'.res = NodeAlreadyPingedError(addr)
              /\ UNCHANGED <<sequence, pings, current, issued>>
        /\ ret'.res.kind = "Ok" =>
              /\ ret'.res.val.addr = addr
              /\ pings'[ret'.res.val.sequence] = Direct(addr)
    ]_vars

PingRefusesInFlightWitness ==
    /\ ret.op = "ping"
    /\ ret.res.kind = "Err"
    /\ \E s \in DOMAIN pings :
          pings[s].kind = "Indirect" /\ pings[s].addr = ret.res.addr
    /\ sequence = Len(issued)

SameProbe(p, h) ==
    \/ p.kind = "Direct" /\ h.kind = "direct" /\ p.addr = h.who
    \/ p.kind = "Indirect" /\ h.kind = "indirect" /\ p.addr = h.who
    \/ p.kind = "Request" /\ h.kind = "request" /\ p.source = h.who

(* C8: the sequence numbers handed out by ping, ping_request and fail are  *)
(* 0, 1, 2, ... in that order, so each is greater than all before it, and  *)
(* a stored entry is always the probe its sequence was handed out for.     *)

SequenceMonotonic ==
    /\ \A i \in 1..Len(issued) : issued[i] = i - 1
    /\ \A i, j \in 1..Len(issued) : i < j => issued[i] < issued[j]
    /\ \A s \in DOMAIN pings : s \in IssuedSet /\ SameProbe(pings[s], hist[s])

SequenceMonotonicWitness ==
    /\ Len(issued) = MaxSeq
    /\ ret.op = "fail"
    /\ ret.res.kind = "Some"
    /\ ret.res.val.kind = "DoIndirect"
    /\ ret.res.val.target.sequence = MaxSeq - 1
    /\ \E s \in DOMAIN pings : pings[s].kind = "Request"

(* C9: ack(s) on a stored sequence removes and returns its entry and, for  *)
(* Direct or Indirect, takes the address out of the in-flight set; ack(s)  *)
(* on a sequence already acked or failed (also the Direct sequence whose   *)
(* probe fail moved to an Indirect one) returns None and changes nothing.  *)

AckRemovesEntry ==
    [][ret'.op = "ack" =>
        LET s == ret'.s IN
        /\ InPings(s) =>
              /\ ret'.res = Some(pings[s])
              /\ DOMAIN pings' = DOMAIN pings \ {s}
              /\ \A u \in DOMAIN pings' : pings'[u] = pings[u]
              /\ sequence' = sequence
              /\ pings[s].kind \in {"Direct", "Indirect"} =>
                    /\ pings[s].addr \in current
                    /\ current' = current \ {pings[s].addr}
              /\ pings[s].kind = "Request" => current' = current
        /\ ~InPings(s) =>
              /\ ret'.res = None
              /\ UNCHANGED <<sequence, pings, current>>
        /\ Open(hist[s]) <=> InPings(s)
        /\ hist[s].kind = "closed" => ret'.res = None
    ]_vars

AckRemovesEntryWitness ==
    /\ ret.op = "ack"
    /\ ret.res = None
    /\ hist[ret.s].kind = "closed"
    /\ hist[ret.s].was = "direct"
    /\ hist[ret.s].why = "failed"
    /\ \E u \in DOMAIN pings : pings[u].kind = "Indirect" /\ hist[u].parent = ret.s

FreshNack(s, from) ==
    /\ InPings(s)
    /\ pings[s].kind = "Indirect"
    /\ from \notin pings[s].nacks

NackPost(s, from) ==
    /\ FreshNack(s, from) =>
          /\ ret'.res = Some(Cardinality(pings[s].nacks) + 1)
          /\ ret'.res.val >= 1
          /\ ret'.res.val = Cardinality(hist'[s].nacks)
          /\ DOMAIN pings' = DOMAIN pings
          /\ pings'[s] = Indirect(pings[s].addr, pings[s].nacks \cup {from})
          /\ \A u \in DOMAIN pings \ {s} : pings'[u] = pings[u]
          /\ UNCHANGED <<sequence, current>>
    /\ ~FreshNack(s, from) =>
          /\ ret'.res = None
          /\ UNCHANGED <<sequence, pings, current>>
    /\ FreshNack(s, from) <=>
          (hist[s].kind = "indirect" /\ from \notin hist[s].nacks)

(* C10: nack(s, from) changes state only when s is a stored Indirect ping  *)
(* and from is not yet in its nack set: it adds from and returns the new   *)
(* set size (>= 1); otherwise (unknown sequence, Direct, Request, repeated *)
(* nack) it returns None and leaves the store unchanged.                   *)

----------------------------------------------------------------------------
StoreAfter == [sequence |-> sequence', pings |-> pings', current |-> current']

(* C11: ping_request never touches the in-flight set: after it ping(a)     *)
(* succeeds exactly for the addresses it would have succeeded for before,  *)
(* and ack or fail of a stored Request sequence leaves the in-flight set   *)
(* unchanged as well.                                                      *)

PingRequestFrame ==
    [][/\ ret'.op = "ping_request" =>
            /\ current' = current
            /\ \A a \in Addrs :
                  ping(StoreAfter, a).res.kind = ping(Store, a).res.kind
       /\ (ret'.op \in {"ack", "fail"} /\ InPings(ret'.s)
             /\ pings[ret'.s].kind = "Request") => current' = current
    ]_vars

PingRequestFrameWitness ==
    /\ ret.op = "ping_request"
    /\ ret.res.addr \in current
    /\ ping(Store, ret.res.addr).res.kind = "Err"
    /\ \E a \in Addrs : ping(Store, a).res.kind = "Ok"

----------------------------------------------------------------------------
NonLeft(m) == {a \in DOMAIN m : m[a].state # Left}

Yielded == {trav.yielded[i] : i \in 1..Len(trav.yielded)}

StackSet(st) == {st[i] : i \in 1..Len(st)}

(* C12: draining the iterator of iter_unique_random_addrs goes through     *)
(* (no call of next panics or loops for ever) and yields every address     *)
(* that is in the map with a non-Left state exactly once.                  *)

DrainYieldsEachOnce ==
    /\ trav.status = "ok"
    /\ Drained =>
          /\ Yielded = NonLeft(map)
          /\ \A i, j \in 1..Len(trav.yielded) :
                trav.yielded[i] = trav.yielded[j] => i = j

(* C13: the traversal never yields an address that has been removed from   *)
(* the map, nor an address whose node is Left at the time of the           *)
(* traversal, even when the address is still in the stack from an earlier  *)
(* refill.                                                                 *)

YieldsOnlyPresentNonLeft ==
    (trav.op = "next" /\ trav.res # None) =>
        /\ contains(map, trav.res.val)
        /\ map[trav.res.val].state # Left

(* C14: every address entering the stack is, at that time, a key of the    *)
(* map with a non-Left state, and the stack holds no address twice; remove *)
(* and get_mut leave the stack as it is, and an address the traversal      *)
(* yields is a key of the map.                                             *)

StackFromMap ==
    [][/\ StackSet(stack') \subseteq StackSet(stack) \cup NonLeft(map)
       /\ Cardinality(StackSet(stack')) = Len(stack')
       /\ nsLast' # nsLast => stack' = stack
       /\ (trav'.op = "next" /\ trav'.res # None) => contains(map', trav'.res.val)
    ]_vars

StackFromMapWitness ==
    /\ nsLast.op = "remove"
    /\ nsLast.prev # NoNode
    /\ nsLast.node.addr \in StackSet(stack)
    /\ ~contains(map, nsLast.node.addr)

\* C14 as the specification states it: an address is in the stack only if
\* it is in the map.
StackWithinMap == StackSet(stack) \subseteq DOMAIN map

----------------------------------------------------------------------------
(* C15: the Awareness counter starts at score 1 and after any sequence of  *)
(* increment and decrement calls 1 <= score <= max holds, so score() never *)
(* unwraps a zero.                                                         *)

AwarenessBounds ==
    /\ 1 <= awareness.score
    /\ awareness.score <= awareness.max
    /\ ~awLast.res.panic
    /\ awLast.op = "new" => awareness.score = 1

AwarenessBoundsWitness ==
    /\ awareness.max = DefaultMax
    /\ awareness.score = awareness.max
    /\ awLast.op = "increment"
    /\ awLast.before = awareness.max

----------------------------------------------------------------------------
AwMin(a, b) == IF a < b THEN a ELSE b

AwMax(a, b) == IF a > b THEN a ELSE b

(* C16: increment raises the score by exactly 1 below max and leaves it at *)
(* max otherwise, decrement lowers it by exactly 1 above 1 and leaves it   *)
(* at 1 otherwise, and each returns the new score; so n increments in a    *)
(* row from s end at min(max, s + n) and n decrements at max(1, s - n):    *)
(* with max 9, nine increments from 1 reach 9 and stay there, eight        *)
(* decrements from 9 reach 1 and stay there.                               *)

AwarenessSteps ==
    /\ awLast.op = "increment" =>
          /\ awareness.score =
                IF awLast.before < awareness.max THEN awLast.before + 1
                ELSE awareness.max
          /\ awLast.res.val = awareness.score
          /\ awareness.score = AwMin(awareness.max, awRun.start + awRun.n)
    /\ awLast.op = "decrement" =>
          /\ awareness.score =
                IF awLast.before > 1 THEN awLast.before - 1 ELSE 1
          /\ awLast.res.val = awareness.score
          /\ awareness.score = AwMax(1, awRun.start - awRun.n)
    /\ (awareness.max = 9 /\ awRun.op = "increment" /\ awRun.start = 1
          /\ awRun.n >= 9) => awareness.score = 9
    /\ (awareness.max = 9 /\ awRun.op = "decrement" /\ awRun.start = 9
          /\ awRun.n >= 8) => awareness.score = 1

AwarenessStepsWitness ==
    /\ awareness.max = 9
    /\ awRun = [op |-> "decrement", start |-> 9, n |-> 9]
    /\ awareness.score = 1
    /\ awLast.before = 1

----------------------------------------------------------------------------
(* C17: suspect(addr, inc, suspector) returns New and stores               *)
(* {inc, {suspector}} when addr has no entry; returns None when inc is     *)
(* lower than the stored incarnation; returns Reset and stores             *)
(* {inc, {suspector}} when inc is higher; returns Update(n), n the size of *)
(* the suspector set after adding suspector, when inc is equal.            *)

SuspectResult ==
    [][susLast'.op = "suspect" =>
        LET a == susLast'.addr
            i == susLast'.incarnation
            s == susLast'.suspector
            p == Suspecions_get(suspicions, a)
            e == suspicions'[a] IN
        /\ ~susLast'.panic
        /\ a \in DOMAIN suspicions'
        /\ \A b \in Addrs \ {a} :
              Suspecions_get(suspicions', b) = Suspecions_get(suspicions, b)
        /\ p = None => (susLast'.res = Some(New) /\ e = Suspicion(i, {s}))
        /\ (p # None /\ i < p.val.incarnation) => (susLast'.res = None /\ e = p.val)
        /\ (p # None /\ i > p.val.incarnation) =>
              (susLast'.res = Some(Reset) /\ e = Suspicion(i, {s}))
        /\ (p # None /\ i = p.val.incarnation) =>
              /\ e = Suspicion(i, p.val.suspectors \cup {s})
              /\ susLast'.res = Some(Update(Cardinality(e.suspectors)))
    ]_vars

SuspectResultWitness ==
    /\ susLast.op = "suspect"
    /\ susLast.res = Some(Reset)
    /\ suspicions[susLast.addr] = Suspicion(MaxSusInc, {susLast.suspector})
    /\ \E b \in DOMAIN suspicions : Cardinality(suspicions[b].suspectors) = NumAddrs

(* C18: a suspect(addr, i', .) call with i' lower than the stored          *)
(* incarnation returns None and leaves the entry of addr and every other   *)
(* entry unchanged.                                                        *)

StaleSuspectIgnored ==
    [][(/\ susLast'.op = "suspect"
        /\ susLast'.addr \in DOMAIN suspicions
        /\ susLast'.incarnation < suspicions[susLast'.addr].incarnation)
       => (susLast'.res = None /\ suspicions' = suspicions)
    ]_vars

StaleSuspectIgnoredWitness ==
    /\ susLast.op = "suspect"
    /\ susLast.res = None
    /\ susLast.incarnation < suspicions[susLast.addr].incarnation
    /\ susLast.suspector \notin suspicions[susLast.addr].suspectors
    /\ Cardinality(DOMAIN suspicions) = NumAddrs

(* C19: Update reports the number of distinct suspectors named for addr    *)
(* since its entry was created or reset, and repeating suspect(addr, i, s) *)
(* with a suspector already named returns the same count as before.        *)

UpdateCountsDistinct ==
    [][(susLast'.op = "suspect" /\ susLast'.res # None
          /\ susLast'.res.val.kind = "Update") =>
        LET a == susLast'.addr
            n == susLast'.res.val.count IN
        /\ n = Cardinality(susSeen'[a])
        /\ susLast'.suspector \in susSeen[a] => n = Cardinality(susSeen[a])
        /\ (/\ susLast.op = "suspect" /\ susLast.res # None
            /\ susLast.addr = a
            /\ susLast.incarnation = susLast'.incarnation
            /\ susLast.suspector = susLast'.suspector)
           => n = SuspicionCount(susLast.res.val)
    ]_vars

UpdateCountsDistinctWitness ==
    /\ susLast.op = "suspect"
    /\ susLast.res = Some(Update(NumAddrs))
    /\ susLast.known
    /\ suspicions[susLast.addr].suspectors = Addrs

(* C20: every existing suspicion entry has a non-empty suspector set;      *)
(* remove(addr) returns the previous entry and deletes it, leaving the     *)
(* other entries alone, and a second remove(addr) returns None.            *)

RemoveReturnsEntry ==
    [][/\ \A a \in DOMAIN suspicions' : suspicions'[a].suspectors # {}
       /\ susLast'.op = "remove" =>
             /\ susLast'.res = Suspecions_get(suspicions, susLast'.addr)
             /\ suspicions' = Del(suspicions, susLast'.addr)
             /\ (susLast.op = "remove" /\ susLast.addr = susLast'.addr)
                   => susLast'.res = None
    ]_vars

RemoveReturnsEntryWitness ==
    /\ susLast.op = "remove"
    /\ susLast.res # None
    /\ Cardinality(susLast.res.val.suspectors) = NumAddrs
    /\ susLast.addr \notin DOMAIN suspicions
    /\ suspicions # NoSuspicions

----------------------------------------------------------------------------
(* C24: suspect succeeds exactly from Alive(i) and gives Suspect(i); kill  *)
(* succeeds exactly from Alive(i) or Suspect(i) and gives Dead(i); leave   *)
(* succeeds exactly from a state other than Left and gives Left;           *)
(* suspect_if_dead returns true exactly from Dead(i) and gives Suspect(i). *)
(* A failed mutation leaves the state as it was, and suspect, kill and     *)
(* suspect_if_dead keep the incarnation.                                   *)
GuardedMutations ==
    LET b == mutLast.before
        ok == mutLast.res \in {"Ok", "true"}
    IN /\ mutLast.op = "suspect" =>
            /\ ok <=> b.tag = "Alive"
            /\ ok => nodeState = Suspect(b.inc)
            /\ ~ok => mutLast.res = "SuspectError"
       /\ mutLast.op = "kill" =>
            /\ ok <=> b.tag \in {"Alive", "Suspect"}
            /\ ok => nodeState = Dead(b.inc)
            /\ ~ok => mutLast.res = "KillError"
       /\ mutLast.op = "leave" =>
            /\ ok <=> b # Left
            /\ ok => nodeState = Left
            /\ ~ok => mutLast.res = "LeaveError"
       /\ mutLast.op = "suspect_if_dead" =>
            /\ ok <=> b.tag = "Dead"
            /\ ok => nodeState = Suspect(b.inc)
            /\ ~ok => mutLast.res = "false"
       /\ mutLast.op \in Guarded =>
            /\ ~ok => nodeState = b
            /\ mutLast.op # "leave" => nodeState.inc = b.inc

GuardedMutationsWitness ==
    /\ mutLast.op = "kill"
    /\ mutLast.res = "KillError"
    /\ mutLast.before = Dead(1)
    /\ nodeState = Dead(1)

(* C25: reincarnate turns Alive(i), Suspect(i) and Dead(i) into            *)
(* Alive(i + 1), for every incarnation up to the largest one, and leaves   *)
(* Left as it is.                                                          *)
ReincarnateIncrements ==
    mutLast.op = "reincarnate" =>
        /\ ~mutLast.panic
        /\ nodeState = IF mutLast.before = Left THEN Left ELSE Alive(mutLast.before.inc + 1)

(* C26: once the record of an address has been reincarnated from           *)
(* incarnation i to Alive(i + 1) and is still as reincarnate left it, an   *)
(* insert for that address carrying Alive(j), Suspect(j) or Dead(j) with   *)
(* j <= i returns Unchanged and the stored state stays Alive(i + 1).       *)
SelfRefutationSticks ==
    [][\A node \in RefuterNodes :
          (/\ node.addr \in refuted
           /\ node.state # Left
           /\ node.state.inc < map[node.addr].state.inc
           /\ MergeInsert(node))
          => /\ nsLast'.res = "Unchanged"
             /\ map[node.addr].state.tag = "Alive"
             /\ map' = map]_vars

SelfRefutationSticksWitness ==
    /\ nsLast.op = "insert"
    /\ nsLast.res = "Unchanged"
    /\ nsLast.node.addr \in refuted
    /\ nsLast.node.state = Dead(1)
    /\ map[nsLast.node.addr].state = Alive(2)

(* C27: insert returns Inserted when the address was absent, Updated when  *)
(* the new state is strictly greater than the stored one, Equal when the   *)
(* two are equal and Unchanged when it is strictly less; on Equal and      *)
(* Unchanged the stored record, state and metadata, stays as it was; the   *)
(* records of the other addresses stay as they were and the number of      *)
(* entries grows by one on Inserted and not at all otherwise.              *)
InsertResultAndFrame ==
    [][\A node \in MetaNodes :
          Insert(node) =>
             LET a == node.addr
                 res == nsLast'.res
             IN /\ res = "Inserted" <=> a \notin DOMAIN map
                /\ a \in DOMAIN map =>
                     /\ res = "Updated" <=> RefCmp(node.state, map[a].state) = "Greater"
                     /\ res = "Equal" <=> RefCmp(node.state, map[a].state) = "Equal"
                     /\ res = "Unchanged" <=> RefCmp(node.state, map[a].state) = "Less"
                /\ res \in {"Equal", "Unchanged"} => map' = map
                /\ \A b \in DOMAIN map \ {a} : b \in DOMAIN map' /\ map'[b] = map[b]
                /\ Cardinality(DOMAIN map') =
                      Cardinality(DOMAIN map) + (IF res = "Inserted" THEN 1 ELSE 0)]_vars

InsertResultAndFrameWitness ==
    /\ nsLast.op = "insert"
    /\ nsLast.res = "Equal"
    /\ nsLast.node.metadata # nsLast.prev.metadata
    /\ map[nsLast.node.addr] = nsLast.prev
    /\ Cardinality(DOMAIN map) = 2

(* C30: the traversal terminates: every call of next returns after        *)
(* finitely many pops, and the iterator yields at most one address per     *)
(* entry of the map before it returns None.                                *)
TraversalTerminates ==
    /\ trav.status # "hang"
    /\ Len(trav.yielded) <= Cardinality(DOMAIN map)

----------------------------------------------------------------------------
\* timeout(min, max, c) of the last call's calculator, in time units
TimeoutOf(c) == MsUnit * TimeoutCalculator_timeout(tcLast.k, tcLast.min, tcLast.max, c)

\* suspicion.rs, tests::calc_timeout: k = 3, min = 2 s, max = 30 s
CalcTimeoutCases == <<30000, 16000, 7810, 2000, 2000, 2000>>

----------------------------------------------------------------------------
\* the tasks that won done.swap: they send, or have sent, their value
Won == {g \in 1..Len(tasks) : tasks[g].pc \in {"send", "parked", "sent"}}

\* task g sends its value in this step
Sends(g) == tasks[g].pc \in {"send", "parked"} /\ tasks'[g].pc = "sent"

(* C21: whenever a task races with a reset, either the old fire won, and   *)
(* the reset spawned no task, or the reset succeeded, and the task it      *)
(* replaced sends nothing: a task that won done.swap is the one its        *)
(* Timer's handle points to, and it sends no earlier than started + d for  *)
(* the Duration last programmed.                                           *)
FireXorReset ==
    [][\A g \in 1..Len(tasks) :
          /\ g \in Won => timers[tasks[g].timer].handle = g
          /\ Sends(g) =>
                now >= timers[tasks[g].timer].started + timers[tasks[g].timer].d]_vars

----------------------------------------------------------------------------
\* the Timer of task g is dropped in this step
Dropped(g) == timers[tasks[g].timer].alive /\ ~timers'[tasks[g].timer].alive

(* C22: dropping a Timer aborts its task. A task that is sleeping, or      *)
(* waiting for room in the channel, at the drop is cancelled by it and     *)
(* sends nothing afterwards; a task that sends for a dropped Timer was     *)
(* being polled when it was aborted.                                       *)
DropCancels ==
    [][\A g \in 1..Len(tasks) :
          /\ (Dropped(g) /\ tasks[g].pc \in {"sleep", "parked"}) =>
                tasks'[g].pc = "cancelled"
          /\ (Dropped(g) /\ g = timers[tasks[g].timer].handle
                         /\ tasks[g].pc \in {"run", "send"}) =>
                tasks'[g].aborted
          /\ tasks[g].pc = "cancelled" => tasks'[g].pc = "cancelled"
          /\ (Sends(g) /\ ~timers[tasks[g].timer].alive) => tasks[g].aborted]_vars

\* a sleeping task was cancelled by the drop of its Timer, and the event
\* another dropped Timer had sent before is still in the channel
DropCancelsWitness ==
    /\ \E g \in 1..Len(tasks) :
          /\ tasks[g].pc = "cancelled"
          /\ timers[tasks[g].timer].handle = g
          /\ ~timers[tasks[g].timer].alive
    /\ chan # <<>>
    /\ ~timers[tasks[Head(chan)].timer].alive

\* C22 as the specification states it: the consumer never receives an
\* event of a Timer that has been dropped.
NoEventAfterDrop ==
    [][(chan # <<>> /\ chan' = Tail(chan)) => timers[tasks[Head(chan)].timer].alive]_vars

----------------------------------------------------------------------------
\* d is the share that a timer of this kind has of a * base_timeout
IsShare(d, kind, a) == 100 * d = Mul(kind) * a * BaseTimeout

\* the later of two instants
Later(a, b) == IF a >= b THEN a ELSE b

\* update_awareness(a) has reprogrammed the pending timer t in this step
Reprogrammed(t, a) ==
    /\ IsShare(timers'[t].d, timers[t].kind, a)
    /\ ~timers'[t].done
    /\ tasks'[timers[t].handle].pc = "cancelled"
    /\ timers'[t].handle > Len(tasks)
    /\ tasks'[timers'[t].handle] =
          NewTask(t, Later(now, timers[t].started + timers'[t].d))

----------------------------------------------------------------------------
\* task g of the interval ticks in this step
Ticks(g) == interval.tasks[g].pc = "run" /\ interval'.tasks[g].pc # "run"

(* C28: after reset(d') the next tick is at last_started + d', or at once  *)
(* if that is past: no task but the one of the last reset ticks, and it    *)
(* does not tick before last_started + d' nor sleep beyond the later of    *)
(* now and last_started + d'. AwarenessInterval::update(a) sets the period *)
(* to a * base_interval and leaves last_started alone.                     *)
IntervalAnchored ==
    [][/\ \A g \in 1..Len(interval.tasks) :
             Ticks(g) => /\ g = interval.handle
                         /\ now >= interval.last_started + interval.d
       /\ (interval.made /\ interval.tasks[interval.handle].pc = "sleep") =>
             interval.tasks[interval.handle].wake
                <= Later(now, interval.last_started + interval.d)
       /\ \A a \in IvAwareness : AwarenessUpdate(a) =>
             /\ interval'.d = a * BaseInterval
             /\ interval'.last_started = interval.last_started]_vars

----------------------------------------------------------------------------
(* C31: the expect in Iter::next never panics: once                        *)
(* iter_unique_random_addrs has returned an iterator, every pop made by    *)
(* next finds an address.                                                  *)
PopNeverPanics == trav.status # "panic"

----------------------------------------------------------------------------
\* the tasks of Timer t that won done.swap
WonOf(t) == {g \in Won : tasks[g].timer = t}

(* C32: a Timer delivers at most one value: at most one of its tasks ever  *)
(* wins done.swap, from then on done stays true and no reset gets past its *)
(* own swap; a task goes on to send exactly when its swap finds done false *)
(* and it leaves done true.                                                *)
AtMostOneValue ==
    [][/\ \A t \in 1..Len(timers) :
             /\ Cardinality(WonOf(t)) <= 1
             /\ WonOf(t) # {} => timers[t].done
             /\ (WonOf(t) # {} /\ t <= Len(timers')) => timers'[t].done
       /\ rst.pc # "idle" => WonOf(rst.timer) = {}
       /\ \A g \in 1..Len(tasks) :
             (tasks[g].pc = "run" /\ tasks'[g].pc # "run") =>
                /\ timers'[tasks[g].timer].done
                /\ tasks'[g].pc = "send" <=> ~timers[tasks[g].timer].done]_vars

\* a task of a Timer has sent its value, and another task of the same
\* Timer, spawned by a reset, found done true and ended without sending
AtMostOneValueWitness ==
    \E g, h \in 1..Len(tasks) :
       /\ tasks[g].timer = tasks[h].timer
       /\ tasks[g].pc = "sent"
       /\ tasks[h].pc = "end"

----------------------------------------------------------------------------
(* C33: a successful suspect, kill or leave, and a reincarnate of a state  *)
(* other than Left, returns and leaves a state strictly greater under      *)
(* NodeState::cmp than the state before, whatever the incarnation.         *)
MutationsMoveUp ==
    ( \/ mutLast.op \in Mutations /\ mutLast.res = "Ok"
      \/ mutLast.op = "reincarnate" /\ mutLast.before # Left ) =>
        /\ ~mutLast.panic
        /\ cmp(nodeState, mutLast.before) = "Greater"

----------------------------------------------------------------------------
\* the states the updates carry for an address
StatesFor(addr) == {n.state : n \in {u \in twoSets.updates : u.addr = addr}}

\* the greatest of a non-empty set of states
MaxState(S) == CHOOSE x \in S : \A y \in S : cmp(x, y) \in {"Greater", "Equal"}

(* C34: two NodeSets that have been given the same updates, in any order   *)
(* and any number of times each, hold the same addresses and for every     *)
(* address the same state, the greatest one the updates carry for it.      *)
MergeOrderIndependent ==
    (twoSets.gotA = twoSets.updates /\ twoSets.gotB = twoSets.updates) =>
        /\ DOMAIN twoSets.a = DOMAIN twoSets.b
        /\ DOMAIN twoSets.a = {u.addr : u \in twoSets.updates}
        /\ \A addr \in DOMAIN twoSets.a :
              /\ twoSets.a[addr].state = twoSets.b[addr].state
              /\ twoSets.a[addr].state = MaxState(StatesFor(addr))

\* both NodeSets have been given Alive(1), Suspect(0) and Dead(0) for
\* address 1 and hold Alive(1)
MergeOrderIndependentWitness ==
    /\ twoSets.gotA = twoSets.updates
    /\ twoSets.gotB = twoSets.updates
    /\ StatesFor(1) = {Alive(1), Suspect(0), Dead(0)}
    /\ twoSets.a[1].state = Alive(1)

----------------------------------------------------------------------------
(* C35: a Request that has been nacked by its first fail(s) and neither    *)
(* failed again nor cleared: ack(s) returns Request(src, true) and removes *)
(* the entry, and fail(s) returns None after that. A stored Request that   *)
(* is nacked stays nacked as long as it is stored, and fail(s) returns     *)
(* SendNack(src) only for a Request that no fail(s) was called on before.  *)
AckableUntilSecondTimeout ==
    [][/\ ret'.op = "ack" =>
             LET s == ret'.s
                 h == hist[s]
             IN (h.kind = "request" /\ h.fails = 1) =>
                   /\ ret'.res = Some(Request(h.who, TRUE))
                   /\ DOMAIN pings' = DOMAIN pings \ {s}
                   /\ UNCHANGED <<sequence, current>>
       /\ ret'.op = "fail" =>
             LET s == ret'.s
                 h == hist[s]
             IN /\ (h.kind = "closed" /\ h.was = "request" /\ h.why = "ended") =>
                      /\ ret'.res = None
                      /\ UNCHANGED <<sequence, pings, current>>
                /\ (ret'.res.kind = "Some" /\ ret'.res.val.kind = "SendNack") =>
                      /\ h.kind = "request"
                      /\ h.fails = 0
                      /\ ret'.res.val.source = h.who
       /\ \A s \in DOMAIN pings :
             (pings[s].kind = "Request" /\ pings[s].nacked /\ s \in DOMAIN pings') =>
                pings'[s] = pings[s]
       /\ \A s \in DOMAIN pings :
             pings[s].kind = "Request" =>
                (pings[s].nacked <=> hist[s].fails = 1)]_vars

\* ack has just returned a Request that its first fail had nacked
AckableUntilSecondTimeoutWitness ==
    /\ ret.op = "ack"
    /\ ret.res.kind = "Some"
    /\ ret.res.val.kind = "Request"
    /\ ret.res.val.nacked
    /\ hist[ret.s].kind = "closed"
    /\ hist[ret.s].was = "request"

====
